---- MODULE Spec2Model ----
(***************************************************************************)
(* Proofreading session engine of mcc (src/mcc/proofread/web/app.js).      *)
(*                                                                         *)
(* The editor keeps one fragment (a CSV document plus its metadata record) *)
(* in memory, diffs serializations against a baseline when saving, and     *)
(* runs its handlers as fire-and-forget async functions that suspend at    *)
(* every fetch.  The model keeps the module-level `state` object, the      *)
(* metadata inputs of the page, the files on the server and the set of     *)
(* async calls that are suspended at an I/O boundary.                      *)
(*                                                                         *)
(* Encoding of JavaScript values:                                          *)
(*   text            a sequence of one-character strings                   *)
(*   null pass       0   (parsePassInput only yields null or a number > 0) *)
(*   null timestamp  0   (timestamps are minute-resolution clock readings) *)
(*   null / ""       ""  for reviewer name and notes (both are falsy and   *)
(*                       buildMetadata maps "" to null)                    *)
(*   null index      -1  for selectedRow / selectedCol                     *)
(***************************************************************************)
EXTENDS Integers, Sequences, FiniteSets, TLC

\* ------------------------------------------------------------------ bounds
NItems == 2
MaxTasks == 2
MaxEvents == 3
MaxClock == 3

\* --------------------------------------------------------------- constants
DefaultColumnCount == 2

DEFAULT_COLUMNS == <<"index", "word">>

DQ == "\""
COMMA == ","
LF == "\n"
CR == "\r"

Items == 0 .. (NItems - 1)
Slots == 1 .. MaxTasks

\* ------------------------------------------------------------ CSV (pure)
RECURSIVE ReplaceQuotes(_)
ReplaceQuotes(text) ==
  IF text = <<>> THEN <<>>
  ELSE (IF Head(text) = DQ THEN <<DQ, DQ>> ELSE <<Head(text)>>)
         \o ReplaceQuotes(Tail(text))

NeedsQuoting(text) ==
  \E i \in 1 .. Len(text) : text[i] \in {DQ, COMMA, LF, CR}

escapeCell(value) ==
  IF NeedsQuoting(value) THEN <<DQ>> \o ReplaceQuotes(value) \o <<DQ>>
  ELSE value

RECURSIVE JoinText(_, _)
JoinText(parts, sep) ==
  IF parts = <<>> THEN <<>>
  ELSE IF Len(parts) = 1 THEN parts[1]
  ELSE parts[1] \o <<sep>> \o JoinText(Tail(parts), sep)

serializeRow(row) ==
  JoinText([c \in 1 .. Len(row) |-> escapeCell(row[c])], COMMA)

serializeCsv(rows) ==
  JoinText([r \in 1 .. Len(rows) |-> serializeRow(rows[r])], LF)

RECURSIVE parseCsvLoop(_, _, _, _, _, _)
parseCsvLoop(text, i, rows, row, cell, inQuotes) ==
  IF i > Len(text)
  THEN LET last == Append(row, cell)
       IN IF Len(last) > 1 \/ last[1] # <<>> THEN Append(rows, last) ELSE rows
  ELSE LET char == text[i] IN
    IF inQuotes
    THEN IF char = DQ
         THEN IF i + 1 <= Len(text) /\ text[i + 1] = DQ
              THEN parseCsvLoop(text, i + 2, rows, row, Append(cell, DQ), TRUE)
              ELSE parseCsvLoop(text, i + 1, rows, row, cell, FALSE)
         ELSE parseCsvLoop(text, i + 1, rows, row, Append(cell, char), TRUE)
    ELSE IF char = DQ
         THEN parseCsvLoop(text, i + 1, rows, row, cell, TRUE)
    ELSE IF char = COMMA
         THEN parseCsvLoop(text, i + 1, rows, Append(row, cell), <<>>, FALSE)
    ELSE IF char = LF
         THEN parseCsvLoop(text, i + 1, Append(rows, Append(row, cell)),
                           <<>>, <<>>, FALSE)
    ELSE IF char = CR
         THEN parseCsvLoop(text, i + 1, rows, row, cell, FALSE)
    ELSE parseCsvLoop(text, i + 1, rows, row, Append(cell, char), FALSE)

parseCsv(text) == parseCsvLoop(text, 1, <<>>, <<>>, <<>>, FALSE)

\* ------------------------------------------------------- metadata (pure)
\* String(n) and Number.parseInt(text, 10) over the texts the pass input can hold.
DecimalText == <<"1", "2", "3", "4", "5", "6", "7", "8", "9">>

NaN == -1

String(n) == DecimalText[n]

parseInt(text) ==
  IF text = "0" THEN 0
  ELSE IF \E n \in 1 .. Len(DecimalText) : DecimalText[n] = text
       THEN CHOOSE n \in 1 .. Len(DecimalText) : DecimalText[n] = text
       ELSE NaN

isFinite(n) == n # NaN

\* A metadata object.  kind "null" is JavaScript null, kind "empty" is {} (every
\* field undefined), kind "obj" carries the keys buildMetadata writes.
MetaRecord(kind, src, pass, level, by, started, completed, notes, cols) ==
  [kind |-> kind, source_csv |-> src, source_image |-> src,
   proofread_pass |-> pass, proofread_level |-> level, proofread_by |-> by,
   proofread_started_at |-> started, proofread_completed_at |-> completed,
   notes |-> notes, columns |-> cols]

NullMeta == MetaRecord("null", 0, 0, <<>>, "", 0, 0, "", <<>>)
EmptyMeta == MetaRecord("empty", 0, 0, <<>>, "", 0, 0, "", <<>>)

\* A label that does not follow the pass number.
PassLabelAlwaysFirst(pass) == <<"pass", 1>>

PassLabel(pass) == IF pass # 0 THEN <<"pass", pass>> ELSE <<>>

\* JSON.stringify(meta, null, 2): the keys in insertion order with their values.
JsonStringify(m) ==
  IF m.kind = "empty" THEN << <<"{}", 0>> >>
  ELSE << <<"source_csv", m.source_csv>>,
          <<"source_image", m.source_image>>,
          <<"proofread_pass", m.proofread_pass>>,
          <<"proofread_level", m.proofread_level>>,
          <<"proofread_by", m.proofread_by>>,
          <<"proofread_started_at", m.proofread_started_at>>,
          <<"proofread_completed_at", m.proofread_completed_at>>,
          <<"notes", m.notes>>,
          <<"columns", m.columns>> >>

\* JSON.parse of a metadata file's text.
JsonParse(text) ==
  IF Len(text) = 1 THEN EmptyMeta
  ELSE MetaRecord("obj", text[1][2], text[3][2], text[4][2], text[5][2],
                  text[6][2], text[7][2], text[8][2], text[9][2])

normalizePassValue(m) ==
  IF m.kind = "null" THEN ""
  ELSE IF m.proofread_pass # 0 THEN String(m.proofread_pass)
  ELSE IF m.proofread_level # <<>> /\ m.proofread_level[1] \in {"pass", "level"}
       THEN String(m.proofread_level[2])
       ELSE ""

extractPassNumber(m) ==
  LET parsed == parseInt(normalizePassValue(m))
  IN IF isFinite(parsed) THEN parsed ELSE 0

\* parsePassInput() applied to the text of the pass input.
parsePassInput(raw) ==
  IF raw = "" THEN 0
  ELSE LET parsed == parseInt(raw)
       IN IF ~isFinite(parsed) \/ parsed <= 0 THEN 0 ELSE parsed

\* ------------------------------------------------------ columns (pure)
ColumnLabel == <<"col-1", "col-2", "col-3", "col-4", "col-5", "col-6">>

MaxOf(S) == CHOOSE m \in S : \A x \in S : x <= m

setupColumnsMaxCols(savedColumns, rows) ==
  MaxOf({Len(savedColumns), DefaultColumnCount}
        \cup {Len(rows[r]) : r \in 1 .. Len(rows)})

PadRowKeepsShort(row, maxCols) == row

\* setupColumns lines 485-489: a copy of the row, "" pushed until maxCols long.
PadRow(row, maxCols) ==
  [c \in 1 .. MaxOf({Len(row), maxCols}) |-> IF c <= Len(row) THEN row[c] ELSE <<>>]

setupColumnsRows(savedColumns, rows) ==
  [r \in 1 .. Len(rows) |-> PadRow(rows[r], setupColumnsMaxCols(savedColumns, rows))]

setupColumnsNames(savedColumns, rows) ==
  [i \in 1 .. setupColumnsMaxCols(savedColumns, rows) |->
     IF i <= Len(savedColumns) /\ savedColumns[i] # "" THEN savedColumns[i]
     ELSE IF i <= Len(DEFAULT_COLUMNS) THEN DEFAULT_COLUMNS[i]
     ELSE ColumnLabel[i]]

\* findColumnIndexByName: 0-based position of the first column with that name,
\* -1 for null.
findColumnIndexByName(names, name) ==
  IF \E i \in 1 .. Len(names) : names[i] = name
  THEN (CHOOSE i \in 1 .. Len(names) :
          names[i] = name /\ \A j \in 1 .. (i - 1) : names[j] # name) - 1
  ELSE -1

\* setDefaultShiftColumn() as loadItem calls it, selectedCol being null.
setDefaultShiftColumn(names) ==
  IF findColumnIndexByName(names, "index") # -1
  THEN findColumnIndexByName(names, "index")
  ELSE IF Len(names) > 0 THEN 0 ELSE -1

\* ------------------------------------------------ proofread ranges (viewer)
\* An entry of a ranges_by_pass list: a [start, end] array, a bare finite
\* number, or anything else (a string, null, a one-element array).
PairEntry(a, b) == [kind |-> "pair", a |-> a, b |-> b]
NumberEntry(n) == [kind |-> "number", a |-> n, b |-> n]
OtherEntry == [kind |-> "other", a |-> 0, b |-> 0]

\* collectProofreadRanges returns null when there is nothing to merge; its only
\* consumer, createRangeChecker, treats null and the empty list alike.
NullRanges == <<>>

\* The number a JSON literal such as 1e999 parses to; it compares above every
\* row index, also after + 1.
Infinity == 99

NumberIsFinite(n) == n # Infinity

RECURSIVE normalizeRanges(_)
normalizeRanges(values) ==
  IF values = <<>> THEN <<>>
  ELSE LET entry == Head(values)
       IN (IF entry.kind = "pair"
              \/ (entry.kind = "number" /\ NumberIsFinite(entry.a))
           THEN << <<entry.a, entry.b>> >>
           ELSE <<>>) \o normalizeRanges(Tail(values))

\* Object.keys lists integer-like keys in ascending order; the ranges of each
\* pass are appended in that order.
RECURSIVE concatRanges(_, _)
concatRanges(rangesByPass, passKey) ==
  IF passKey \notin DOMAIN rangesByPass THEN <<>>
  ELSE normalizeRanges(rangesByPass[passKey])
         \o concatRanges(rangesByPass, passKey + 1)

\* ranges.sort((a, b) => a[0] - b[0]): a stable sort by start.
RECURSIVE insertByStart(_, _)
insertByStart(sorted, range) ==
  IF sorted = <<>> THEN <<range>>
  ELSE IF range[1] < Head(sorted)[1] THEN <<range>> \o sorted
  ELSE <<Head(sorted)>> \o insertByStart(Tail(sorted), range)

RECURSIVE sortByStart(_, _)
sortByStart(ranges, sorted) ==
  IF ranges = <<>> THEN sorted
  ELSE sortByStart(Tail(ranges), insertByStart(sorted, Head(ranges)))

mergesWithOverlapOnly(prev, current) == current[1] <= prev[2]

\* The test that joins `current` to the running range `prev`.
mergesWith(prev, current) == current[1] <= prev[2] + 1

mergedEndOfCurrent(prev, current) == current[2]

\* The end of the running range after `current` was joined to it.
mergedEnd(prev, current) == IF prev[2] >= current[2] THEN prev[2] ELSE current[2]

RECURSIVE mergeLoop(_, _, _)
mergeLoop(ranges, i, merged) ==
  IF i > Len(ranges) THEN merged
  ELSE LET prev == merged[Len(merged)]
           current == ranges[i]
       IN IF mergesWith(prev, current)
          THEN mergeLoop(ranges, i + 1,
                         [merged EXCEPT ![Len(merged)] =
                            <<prev[1], mergedEnd(prev, current)>>])
          ELSE mergeLoop(ranges, i + 1, Append(merged, current))

collectProofreadRanges(rangesByPass) ==
  LET ranges == sortByStart(concatRanges(rangesByPass, 1), <<>>)
  IN IF ranges = <<>> THEN NullRanges
     ELSE mergeLoop(ranges, 2, <<ranges[1]>>)

checkerNeverAdvances(ranges, rangeIndex, rowIndex) == rangeIndex

\* The while loop of the checker createRangeChecker returns: the cursor after
\* it moved past every range that ends before rowIndex (0-based, as in the
\* source; `current` is undefined once the cursor is past the list).
RECURSIVE checkerAdvance(_, _, _)
checkerAdvance(ranges, rangeIndex, rowIndex) ==
  IF rangeIndex < Len(ranges) /\ rowIndex > ranges[rangeIndex + 1][2]
  THEN checkerAdvance(ranges, rangeIndex + 1, rowIndex)
  ELSE rangeIndex

\* The value the checker returns with its cursor at rangeIndex.
checkerResult(ranges, rangeIndex, rowIndex) ==
  /\ rangeIndex < Len(ranges)
  /\ rowIndex >= ranges[rangeIndex + 1][1]
  /\ rowIndex <= ranges[rangeIndex + 1][2]

\* searchState.matcher before any query was evaluated, and what
\* buildSearchMatcher returns for a query that is empty after normalization.
NullMatcher == [mode |-> "null"]

\* ------------------------------------------------------------------ state
VARIABLES
  storedCsv,              \* server: text of each fragment's CSV file
  storedMeta,             \* server: each fragment's metadata file
  localStorageBy,         \* localStorage["mcc-proofread-by"]
  itemCount,              \* state.items.length
  itemMeta,               \* state.items[i].meta
  currentIndex,           \* state.currentIndex
  tableData,              \* state.tableData
  columnNames,            \* state.columnNames
  selectedRow,            \* state.selectedRow
  selectedCol,            \* state.selectedCol
  meta,                   \* state.meta
  originalCsvSerialized,  \* state.originalCsvSerialized
  originalMetaSerialized, \* state.originalMetaSerialized
  originalPass,           \* state.originalPass
  sessionStartedAt,       \* state.sessionStartedAt
  metaLevel,              \* elements.metaLevel.value (the pass input)
  metaBy,                 \* elements.metaBy.value
  metaNotes,              \* elements.metaNotes.value
  status,                 \* elements.status (setStatus)
  tasks,                  \* async calls suspended at an await
  now,                    \* the clock nowLocalValue() reads
  events,                 \* number of user events so far
  edited,                 \* history: an input event since the last load / save
  hist,                   \* history: the saveCurrent calls made so far
  origin,                 \* history: fragment the document / baseline came from
  viewerPc,               \* viewer: where loadWords stands
  rangesByPass,           \* viewer: stats.rows.ranges_by_pass of the list
  proofreadRanges,        \* viewer: loadWords' proofreadRanges
  rangeIndex,             \* viewer: the cursor of the isProofreadRow closure
  rowIndex,               \* viewer: the row isProofreadRow was last called with
  proofread,              \* viewer: what that call returned
  published,              \* viewer: the lines of the fetched list text
  wordRows,               \* viewer: loadWords' rows (header first)
  allEntries,             \* viewer: the entries built / dataState.allEntries
  searchInput,            \* viewer: elements.searchInput.value
  searchQuery,            \* viewer: searchState.query
  searchTimer,            \* viewer: searchState.timer (0 is null)
  searchMatcher,          \* viewer: searchState.matcher
  timers,                 \* browser: the pending timeouts (id, due time)
  nextTimer,              \* browser: the id the next setTimeout returns
  clock,                  \* browser: time in units of 40 ms
  filteredEntries,        \* viewer: dataState.filteredEntries
  lastInputAt,            \* history: time of the last query change
  filterRuns,             \* history: number of re-filters the timer caused
  bursts                  \* history: query changes made with no timer pending

vars ==
  <<storedCsv, storedMeta, localStorageBy, itemCount, itemMeta, currentIndex,
    tableData, columnNames, selectedRow, selectedCol, meta,
    originalCsvSerialized, originalMetaSerialized, originalPass,
    sessionStartedAt, metaLevel, metaBy, metaNotes, status, tasks, now,
    events, edited, hist, origin,
    viewerPc, rangesByPass, proofreadRanges, rangeIndex, rowIndex, proofread,
    published, wordRows, allEntries,
    searchInput, searchQuery, searchTimer, searchMatcher, timers, nextTimer,
    clock, filteredEntries, lastInputAt, filterRuns, bursts>>

listVars == <<published, wordRows, allEntries>>

searchVars ==
  <<searchInput, searchQuery, searchTimer, searchMatcher, timers, nextTimer,
    clock, filteredEntries, lastInputAt, filterRuns, bursts>>

viewerVars ==
  <<viewerPc, rangesByPass, proofreadRanges, rangeIndex, rowIndex, proofread,
    listVars, searchVars>>

editorVars ==
  <<storedCsv, storedMeta, localStorageBy, itemCount, itemMeta, currentIndex,
    tableData, columnNames, selectedRow, selectedCol, meta,
    originalCsvSerialized, originalMetaSerialized, originalPass,
    sessionStartedAt, metaLevel, metaBy, metaNotes, status, tasks, now,
    events, edited, hist, origin>>

serverVars == <<storedCsv, storedMeta>>
documentVars == <<tableData, columnNames>>
selectionVars == <<selectedRow, selectedCol>>
baselineVars == <<originalCsvSerialized, originalMetaSerialized, originalPass>>
inputVars == <<metaLevel, metaBy, metaNotes>>

Status(msg, base, isError) == [msg |-> msg, base |-> base, isError |-> isError]

\* A metadata file on the server: absent, or the text the editor wrote.
AbsentFile == [file |-> "absent", text |-> <<>>]
JsonFile(text) == [file |-> "json", text |-> text]

\* One suspended async call.  op is the handler that was started ("init" is
\* refreshItems, "save" a direct saveCurrent, "nav" a navigateTo); pc is the
\* await it is suspended at; index is the fragment loadItem was / will be called
\* with; item, csv, csvChanged, metadata, metadataChanged are saveCurrent's locals.
IdleTask ==
  [op |-> "idle", pc |-> "idle", index |-> -1, item |-> -1, csv |-> <<>>,
   csvChanged |-> FALSE, metadata |-> NullMeta, metadataChanged |-> FALSE]

\* init() is suspended in refreshItems at the file listing when the page is up.
InitTask == [IdleTask EXCEPT !.op = "init", !.pc = "list"]

FreeSlot(t) ==
  /\ tasks[t].op = "idle"
  /\ \A u \in Slots : u < t => tasks[u].op # "idle"

AllIdle == \A t \in Slots : tasks[t].op = "idle"

\* ---------------------------------------------------------- initial files
InitCsvTexts(i) ==
  IF i = 0
  THEN { <<"a", ",", "a">>, <<"a", ",", "a", LF, "a">> }
  ELSE { <<"b", ",", "b">> }

WrittenMeta(i) ==
  MetaRecord("obj", i, 1, PassLabel(1), "ann", 1, 1, "", DEFAULT_COLUMNS)

InitMetaFiles(i) == { AbsentFile, JsonFile(JsonStringify(WrittenMeta(i))) }

CellValues == { <<"x">> }
EditableCells == { <<1, 1>>, <<2, 2>> }
PassInputs == { "" }
ByInputs == { "ann" }
NotesInputs == { "n" }

\* No saveCurrent call has been made.
NoSaves ==
  [touched |-> FALSE, pass |-> 0, auto |-> FALSE, autoSinceLoad |-> 0,
   autoSinceTyped |-> 0]

\* No list text is being processed.
ListOff ==
  /\ published = <<>>
  /\ wordRows = <<>>
  /\ allEntries = <<>>

\* searchState and the timers when the page has just been opened.
SearchOff ==
  /\ searchInput = <<>>
  /\ searchQuery = <<>>
  /\ searchTimer = 0
  /\ searchMatcher = NullMatcher
  /\ timers = {}
  /\ nextTimer = 1
  /\ clock = 0
  /\ filteredEntries = <<>>
  /\ lastInputAt = 0
  /\ filterRuns = 0
  /\ bursts = 0

\* The viewer page is not open.
ViewerOff ==
  /\ viewerPc = "off"
  /\ rangesByPass = <<>>
  /\ proofreadRanges = NullRanges
  /\ rangeIndex = 0
  /\ rowIndex = 0
  /\ proofread = FALSE
  /\ ListOff
  /\ SearchOff

Init ==
  /\ ViewerOff
  /\ storedCsv \in { f \in [Items -> UNION {InitCsvTexts(i) : i \in Items}] :
                       \A i \in Items : f[i] \in InitCsvTexts(i) }
  /\ storedMeta \in { f \in [Items -> UNION {InitMetaFiles(i) : i \in Items}] :
                        \A i \in Items : f[i] \in InitMetaFiles(i) }
  /\ localStorageBy = ""
  /\ itemCount = 0
  /\ itemMeta = [i \in Items |-> NullMeta]
  /\ currentIndex = -1
  /\ tableData = <<>>
  /\ columnNames = <<>>
  /\ selectedRow = -1
  /\ selectedCol = -1
  /\ meta = NullMeta
  /\ originalCsvSerialized = <<>>
  /\ originalMetaSerialized = <<>>
  /\ originalPass = 0
  /\ sessionStartedAt = 0
  /\ metaLevel = ""
  /\ metaBy = ""
  /\ metaNotes = ""
  /\ status = Status("", -1, FALSE)
  /\ tasks = [t \in Slots |-> IF t = 1 THEN InitTask ELSE IdleTask]
  /\ now = 2
  /\ events = 0
  /\ edited = FALSE
  /\ hist = NoSaves
  /\ origin = [doc |-> -1, baseline |-> -1]

\* ------------------------------------------------------------ saveCurrent
\* The locals saveCurrent computes before its first await, from the state it
\* is called in.
saveCsvSerialized == serializeCsv(tableData)

saveCsvChanged == saveCsvSerialized # originalCsvSerialized

autoPassSkipsOne(previous) == previous + 2

autoPass(previous) == previous + 1

savePass ==
  LET passInput == parsePassInput(metaLevel)
  IN IF saveCsvChanged /\ passInput = 0 THEN autoPass(originalPass) ELSE passInput

saveStartedAt ==
  IF saveCsvChanged
  THEN (IF sessionStartedAt # 0 THEN sessionStartedAt ELSE now)
  ELSE meta.proofread_started_at

saveCompletedAtRefreshed == now

saveCompletedAt ==
  IF saveCsvChanged THEN now ELSE meta.proofread_completed_at

buildMetadata(item, pass, startedAt, completedAt) ==
  MetaRecord("obj", item, pass, PassLabel(pass), metaBy,
             IF startedAt # 0 THEN startedAt ELSE meta.proofread_started_at,
             IF completedAt # 0 THEN completedAt ELSE meta.proofread_completed_at,
             metaNotes, columnNames)

saveMetadata ==
  buildMetadata(currentIndex, savePass, saveStartedAt, saveCompletedAt)

saveMetadataChanged == JsonStringify(saveMetadata) # originalMetaSerialized

saveDidSave == saveCsvChanged \/ saveMetadataChanged

saveFirstWriteAlwaysCsv(csvChanged) == "csv_write"

\* The first write a save issues: the document if it changed, else the metadata.
saveFirstWrite(csvChanged) == IF csvChanged THEN "csv_write" ELSE "meta_write"

\* saveCurrent that leaves the pass input as the reviewer left it.
saveCurrentBeginLeavesInput(t, op, index) ==
  /\ metaLevel' = metaLevel
  /\ tasks' = [tasks EXCEPT ![t] =
       [op |-> op, pc |-> saveFirstWrite(saveCsvChanged), index |-> index,
        item |-> currentIndex, csv |-> saveCsvSerialized,
        csvChanged |-> saveCsvChanged, metadata |-> saveMetadata,
        metadataChanged |-> saveMetadataChanged]]

\* saveCurrent up to its first await, when there is something to save
\* (lines 975-1005): slot t now holds the suspended call.
saveCurrentBegin(t, op, index) ==
  /\ metaLevel' = IF saveCsvChanged /\ parsePassInput(metaLevel) = 0
                  THEN String(savePass) ELSE metaLevel
  /\ tasks' = [tasks EXCEPT ![t] =
       [op |-> op, pc |-> saveFirstWrite(saveCsvChanged), index |-> index,
        item |-> currentIndex, csv |-> saveCsvSerialized,
        csvChanged |-> saveCsvChanged, metadata |-> saveMetadata,
        metadataChanged |-> saveMetadataChanged]]

\* saveCommit taking the baseline from the rows as they are now, not as written.
saveCommitReserializes(t) ==
  /\ itemMeta' = [itemMeta EXCEPT ![tasks[t].item] = tasks[t].metadata]
  /\ meta' = tasks[t].metadata
  /\ originalCsvSerialized' = serializeCsv(tableData)
  /\ originalMetaSerialized' = JsonStringify(tasks[t].metadata)
  /\ originalPass' = tasks[t].metadata.proofread_pass
  /\ origin' = [origin EXCEPT !.baseline = tasks[t].item]

\* Lines 1022-1032: the writes succeeded, the baseline is replaced.
saveCommit(t) ==
  /\ itemMeta' = [itemMeta EXCEPT ![tasks[t].item] = tasks[t].metadata]
  /\ meta' = tasks[t].metadata
  /\ originalCsvSerialized' = tasks[t].csv
  /\ originalMetaSerialized' = JsonStringify(tasks[t].metadata)
  /\ originalPass' = tasks[t].metadata.proofread_pass
  /\ origin' = [origin EXCEPT !.baseline = tasks[t].item]

\* --------------------------------------------------------------- loadItem
\* loadItem up to its first await (lines 431-441).
loadItemBegin(t, op, index) ==
  /\ currentIndex' = index
  /\ selectedRow' = -1
  /\ selectedCol' = -1
  /\ status' = Status("Loading", index, FALSE)
  /\ tasks' = [tasks EXCEPT ![t] =
       [IdleTask EXCEPT !.op = op, !.pc = "csv_read", !.index = index]]

\* loadItem from line 448 on, with the metadata object m and the rows that are
\* in state.tableData at that moment.
loadItemFinish(t, m, rows, docOrigin) ==
  LET index == tasks[t].index
      names == setupColumnsNames(m.columns, rows)
  IN
  /\ itemMeta' = [itemMeta EXCEPT ![index] = m]
  /\ meta' = m
  /\ originalCsvSerialized' = serializeCsv(rows)
  /\ originalMetaSerialized' = JsonStringify(m)
  /\ originalPass' = extractPassNumber(m)
  /\ sessionStartedAt' = now
  /\ tableData' = setupColumnsRows(m.columns, rows)
  /\ columnNames' = names
  /\ selectedCol' = IF selectedCol >= 0 /\ selectedCol < Len(names)
                    THEN selectedCol ELSE setDefaultShiftColumn(names)
  /\ metaLevel' = normalizePassValue(m)
  /\ metaBy' = IF m.proofread_by # "" THEN m.proofread_by ELSE localStorageBy
  /\ metaNotes' = m.notes
  /\ status' = Status("Loaded", index, FALSE)
  /\ tasks' = [tasks EXCEPT ![t] = IdleTask]
  /\ edited' = FALSE
  /\ hist' = [hist EXCEPT !.autoSinceLoad = 0, !.autoSinceTyped = 0]
  /\ origin' = [doc |-> docOrigin, baseline |-> index]

\* A read that takes a text that is no JSON for a record of pass 1.
readMetadataParsesAnything(i, readOk) ==
  IF readOk /\ storedMeta[i].file # "absent"
  THEN (IF storedMeta[i].file = "json" THEN JsonParse(storedMeta[i].text)
        ELSE WrittenMeta(i))
  ELSE NullMeta

\* readMetadata(base): the parsed file, or null when the read or the parse fails.
readMetadata(i, readOk) ==
  IF readOk /\ storedMeta[i].file = "json"
  THEN JsonParse(storedMeta[i].text) ELSE NullMeta

\* ------------------------------------------------- findFirstUnproofreadIndex
RECURSIVE scanUnproofread(_, _, _)
scanUnproofread(i, cache, readOk) ==
  IF i >= NItems THEN [index |-> 0, cache |-> cache]
  ELSE LET m == IF cache[i].kind # "null" THEN cache[i]
                ELSE readMetadata(i, readOk[i])
           next == [cache EXCEPT ![i] = m]
       IN IF extractPassNumber(m) = 0
          THEN [index |-> i, cache |-> next]
          ELSE scanUnproofread(i + 1, next, readOk)

\* A search that skips the test for fragments without a metadata file.
findFirstUnproofreadIndexScanOnly(listOk, readOk) ==
  IF ~listOk THEN [index |-> 0, cache |-> itemMeta]
  ELSE scanUnproofread(0, itemMeta, readOk)

findFirstUnproofreadIndex(listOk, readOk) ==
  LET missing == {i \in Items : storedMeta[i].file = "absent"}
  IN IF ~listOk THEN [index |-> 0, cache |-> itemMeta]
     ELSE IF missing # {}
          THEN [index |-> CHOOSE i \in missing : \A j \in missing : i <= j,
                cache |-> itemMeta]
          ELSE scanUnproofread(0, itemMeta, readOk)

\* ------------------------------------------------------------------ actions
\* refreshItemsServer: the listing arrived, the first unproofread fragment is
\* found and loadItem is called with it.
RefreshItems(t) ==
  /\ tasks[t].op = "init" /\ tasks[t].pc = "list"
  /\ \E listOk \in BOOLEAN, readOk \in [Items -> BOOLEAN] :
       LET found == findFirstUnproofreadIndex(listOk, readOk)
       IN /\ itemCount' = NItems
          /\ itemMeta' = found.cache
          /\ loadItemBegin(t, "init", found.index)
  /\ UNCHANGED <<viewerVars, serverVars, localStorageBy, documentVars, meta, baselineVars,
                 sessionStartedAt, inputVars, now, events, edited, hist, origin>>

\* refreshItemsServer: the listing failed (lines 270-273).
RefreshItemsFail(t) ==
  /\ tasks[t].op = "init" /\ tasks[t].pc = "list"
  /\ status' = Status("Unable to list files from server.", -1, TRUE)
  /\ tasks' = [tasks EXCEPT ![t] = IdleTask]
  /\ UNCHANGED <<viewerVars, serverVars, localStorageBy, itemCount, itemMeta, currentIndex,
                 documentVars, selectionVars, meta, baselineVars,
                 sessionStartedAt, inputVars, now, events, edited, hist, origin>>

\* loadItem: the CSV read succeeded (lines 446-447); the metadata read follows
\* unless the fragment's record is cached.
ReadCsvOk(t) ==
  /\ tasks[t].pc = "csv_read"
  /\ LET index == tasks[t].index
         rows == parseCsv(storedCsv[index])
     IN IF itemMeta[index].kind # "null"
        THEN loadItemFinish(t, itemMeta[index], rows, index)
        ELSE /\ tableData' = rows
             /\ tasks' = [tasks EXCEPT ![t].pc = "meta_read"]
             /\ origin' = [origin EXCEPT !.doc = index]
             /\ UNCHANGED <<itemMeta, columnNames, selectedCol, meta,
                            baselineVars, sessionStartedAt, inputVars, status,
                            edited, hist>>
  /\ UNCHANGED <<viewerVars, serverVars, localStorageBy, itemCount, currentIndex,
                 selectedRow, now, events>>

\* loadItem: the CSV read failed (lines 442-445).
ReadCsvFail(t) ==
  /\ tasks[t].pc = "csv_read"
  /\ status' = Status("Failed to read CSV from server.", -1, TRUE)
  /\ tasks' = [tasks EXCEPT ![t] = IdleTask]
  /\ UNCHANGED <<viewerVars, serverVars, localStorageBy, itemCount, itemMeta, currentIndex,
                 documentVars, selectionVars, meta, baselineVars,
                 sessionStartedAt, inputVars, now, events, edited, hist, origin>>

\* loadItem: readMetadata returned (line 447), the rest of loadItem runs.
ReadMetaDone(t) ==
  /\ tasks[t].pc = "meta_read"
  /\ \E readOk \in BOOLEAN :
       LET read == readMetadata(tasks[t].index, readOk)
       IN loadItemFinish(t, IF read.kind # "null" THEN read ELSE EmptyMeta,
                         tableData, origin.doc)
  /\ UNCHANGED <<viewerVars, serverVars, localStorageBy, itemCount, currentIndex,
                 selectedRow, now, events>>

\* History of a saveCurrent call made now: no input event since, the pass
\* number it stamps, whether it assigned that number itself, and how many calls
\* did so since the last load ended and since the pass input was last typed in.
histOfSave ==
  LET auto == saveCsvChanged /\ parsePassInput(metaLevel) = 0
      more(n) == IF auto THEN n + 1 ELSE n
  IN [touched |-> FALSE, pass |-> savePass, auto |-> auto,
      autoSinceLoad |-> more(hist.autoSinceLoad),
      autoSinceTyped |-> more(hist.autoSinceTyped)]

\* The save button and Ctrl/Cmd+S: saveCurrent() up to its first await.
ClickSave(t) ==
  /\ events < MaxEvents
  /\ FreeSlot(t)
  /\ events' = events + 1
  /\ hist' = IF currentIndex < 0 THEN hist ELSE histOfSave
  /\ IF currentIndex < 0
     THEN /\ status' = Status("No CSV loaded.", -1, TRUE)
          /\ UNCHANGED <<metaLevel, tasks>>
     ELSE IF ~saveDidSave
     THEN /\ status' = Status("No changes to save", currentIndex, FALSE)
          /\ UNCHANGED <<metaLevel, tasks>>
     ELSE /\ saveCurrentBegin(t, "save", -1)
          /\ UNCHANGED status
  /\ UNCHANGED <<viewerVars, serverVars, localStorageBy, itemCount, itemMeta, currentIndex,
                 documentVars, selectionVars, meta, baselineVars,
                 sessionStartedAt, metaBy, metaNotes, now, edited, origin>>

navigateSavesAlways == currentIndex >= 0

\* navigateTo line 469: is saveCurrent awaited before loadItem?
navigateSavesFirst == currentIndex >= 0 /\ parsePassInput(metaLevel) # 0

navigateContinuesAnyway(saved) == TRUE

\* navigateTo lines 471-473: does navigation go on after saveCurrent returned?
navigateContinues(saved) == saved

\* The column select, the prev / next buttons and Ctrl/Cmd+J / K:
\* navigateTo(index) up to its first await.
NavigateTo(t, index) ==
  /\ events < MaxEvents
  /\ FreeSlot(t)
  /\ index >= 0 /\ index < itemCount
  /\ events' = events + 1
  /\ hist' = IF navigateSavesFirst THEN histOfSave ELSE hist
  /\ IF navigateSavesFirst /\ saveDidSave
     THEN /\ saveCurrentBegin(t, "nav", index)
          /\ UNCHANGED <<currentIndex, selectionVars, status>>
     ELSE /\ loadItemBegin(t, "nav", index)
          /\ UNCHANGED metaLevel
  /\ UNCHANGED <<viewerVars, serverVars, localStorageBy, itemCount, itemMeta, documentVars,
                 meta, baselineVars, sessionStartedAt, metaBy, metaNotes, now,
                 edited, origin>>

\* What follows a saveCurrent that returned `saved`: nothing for a direct save;
\* for navigateTo, loadItem(index) if the save succeeded.
saveReturn(t, saved, msg, isError) ==
  IF tasks[t].op = "nav" /\ navigateContinues(saved)
  THEN loadItemBegin(t, "nav", tasks[t].index)
  ELSE /\ status' = Status(msg, tasks[t].item, isError)
       /\ tasks' = [tasks EXCEPT ![t] = IdleTask]
       /\ UNCHANGED <<currentIndex, selectionVars>>

\* writeServer of the document succeeded (lines 1005-1010).
WriteCsvOk(t) ==
  /\ tasks[t].pc = "csv_write"
  /\ storedCsv' = [storedCsv EXCEPT ![tasks[t].item] = tasks[t].csv]
  /\ IF tasks[t].metadataChanged
     THEN /\ tasks' = [tasks EXCEPT ![t].pc = "meta_write"]
          /\ UNCHANGED <<itemMeta, meta, baselineVars, origin>>
     ELSE /\ saveCommit(t)
          /\ tasks' = [tasks EXCEPT ![t].pc = "readme"]
  /\ UNCHANGED <<viewerVars, storedMeta, localStorageBy, itemCount, currentIndex,
                 documentVars, selectionVars, sessionStartedAt, inputVars,
                 status, now, events, edited, hist>>

\* writeServer of the metadata succeeded (lines 1011-1017).
WriteMetaOk(t) ==
  /\ tasks[t].pc = "meta_write"
  /\ storedMeta' = [storedMeta EXCEPT ![tasks[t].item] =
                      JsonFile(JsonStringify(tasks[t].metadata))]
  /\ saveCommit(t)
  /\ tasks' = [tasks EXCEPT ![t].pc = "readme"]
  /\ UNCHANGED <<viewerVars, storedCsv, localStorageBy, itemCount, currentIndex,
                 documentVars, selectionVars, sessionStartedAt, inputVars,
                 status, now, events, edited, hist>>

\* WriteFail with the baseline replaced although the write failed.
WriteFailCommits(t) ==
  /\ tasks[t].pc \in {"csv_write", "meta_write"}
  /\ saveReturn(t, FALSE, "Failed to save via server.", TRUE)
  /\ saveCommit(t)
  /\ UNCHANGED <<viewerVars, serverVars, localStorageBy, itemCount, documentVars,
                 sessionStartedAt, inputVars, now, events, edited, hist>>

\* WriteFail going on to the metadata write after the document write threw.
WriteFailSkipsDocument(t) ==
  /\ tasks[t].pc \in {"csv_write", "meta_write"}
  /\ IF tasks[t].pc = "csv_write" /\ tasks[t].metadataChanged
     THEN /\ tasks' = [tasks EXCEPT ![t].pc = "meta_write"]
          /\ UNCHANGED <<currentIndex, selectionVars, status>>
     ELSE saveReturn(t, FALSE, "Failed to save via server.", TRUE)
  /\ UNCHANGED <<viewerVars, serverVars, localStorageBy, itemCount, itemMeta, documentVars,
                 meta, baselineVars, sessionStartedAt, inputVars, now, events,
                 edited, hist, origin>>

\* A writeServer call threw (lines 1018-1021): saveCurrent returns false.
WriteFail(t) ==
  /\ tasks[t].pc \in {"csv_write", "meta_write"}
  /\ saveReturn(t, FALSE, "Failed to save via server.", TRUE)
  /\ UNCHANGED <<viewerVars, serverVars, localStorageBy, itemCount, itemMeta, documentVars,
                 meta, baselineVars, sessionStartedAt, inputVars, now, events,
                 edited, hist, origin>>

\* updateReadmeStats returned (lines 1033-1039): saveCurrent returns true.
ReadmeDone(t) ==
  /\ tasks[t].pc = "readme"
  /\ \E readmeUpdated \in BOOLEAN :
       saveReturn(t, TRUE,
                  IF readmeUpdated THEN "Saved" ELSE "Saved (README update failed)",
                  ~readmeUpdated)
  /\ UNCHANGED <<viewerVars, serverVars, localStorageBy, itemCount, itemMeta, documentVars,
                 meta, baselineVars, sessionStartedAt, inputVars, now, events,
                 edited, hist, origin>>

\* A cell input's "input" event (lines 557-562).
EditCell(r, c, value) ==
  /\ events < MaxEvents
  /\ r \in 1 .. Len(tableData)
  /\ c \in 1 .. Len(tableData[r])
  /\ tableData[r][c] # value
  /\ events' = events + 1
  /\ tableData' = [tableData EXCEPT ![r][c] = value]
  /\ edited' = TRUE
  /\ hist' = [hist EXCEPT !.touched = TRUE]
  /\ UNCHANGED <<viewerVars, serverVars, localStorageBy, itemCount, itemMeta, currentIndex,
                 columnNames, selectionVars, meta, baselineVars,
                 sessionStartedAt, inputVars, status, tasks, now, origin>>

\* The reviewer types into the pass input.
EditPass(value) ==
  /\ events < MaxEvents
  /\ metaLevel # value
  /\ events' = events + 1
  /\ metaLevel' = value
  /\ edited' = TRUE
  /\ hist' = [hist EXCEPT !.touched = TRUE, !.autoSinceTyped = 0]
  /\ UNCHANGED <<viewerVars, serverVars, localStorageBy, itemCount, itemMeta, currentIndex,
                 documentVars, selectionVars, meta, baselineVars,
                 sessionStartedAt, metaBy, metaNotes, status, tasks, now, origin>>

\* The reviewer-name input's "input" event (lines 1239-1241).
EditBy(value) ==
  /\ events < MaxEvents
  /\ metaBy # value
  /\ events' = events + 1
  /\ metaBy' = value
  /\ localStorageBy' = value
  /\ edited' = TRUE
  /\ hist' = [hist EXCEPT !.touched = TRUE]
  /\ UNCHANGED <<viewerVars, serverVars, itemCount, itemMeta, currentIndex, documentVars,
                 selectionVars, meta, baselineVars, sessionStartedAt, metaLevel,
                 metaNotes, status, tasks, now, origin>>

\* The reviewer types into the notes input.
EditNotes(value) ==
  /\ events < MaxEvents
  /\ metaNotes # value
  /\ events' = events + 1
  /\ metaNotes' = value
  /\ edited' = TRUE
  /\ hist' = [hist EXCEPT !.touched = TRUE]
  /\ UNCHANGED <<viewerVars, serverVars, localStorageBy, itemCount, itemMeta, currentIndex,
                 documentVars, selectionVars, meta, baselineVars,
                 sessionStartedAt, metaLevel, metaBy, status, tasks, now, origin>>

\* A minute passes on the clock nowLocalValue() reads.
Tick ==
  /\ now < MaxClock
  /\ events < MaxEvents
  /\ events' = events + 1
  /\ now' = now + 1
  /\ UNCHANGED <<viewerVars, serverVars, localStorageBy, itemCount, itemMeta, currentIndex,
                 documentVars, selectionVars, meta, baselineVars,
                 sessionStartedAt, inputVars, status, tasks, edited, hist, origin>>

Next ==
  \/ \E t \in Slots : RefreshItems(t)
  \/ \E t \in Slots : RefreshItemsFail(t)
  \/ \E t \in Slots : ReadCsvOk(t)
  \/ \E t \in Slots : ReadCsvFail(t)
  \/ \E t \in Slots : ReadMetaDone(t)
  \/ \E t \in Slots : ClickSave(t)
  \/ \E t \in Slots, index \in Items : NavigateTo(t, index)
  \/ \E t \in Slots : WriteCsvOk(t)
  \/ \E t \in Slots : WriteMetaOk(t)
  \/ \E t \in Slots : WriteFail(t)
  \/ \E t \in Slots : ReadmeDone(t)
  \/ \E cell \in EditableCells, value \in CellValues :
       EditCell(cell[1], cell[2], value)
  \/ \E value \in PassInputs : EditPass(value)
  \/ \E value \in ByInputs : EditBy(value)
  \/ \E value \in NotesInputs : EditNotes(value)
  \/ Tick

Spec == Init /\ [][Next]_vars

\* ------------------------------------------------------------------ claims
Writing == {"csv_write", "meta_write"}

SaveFailedStatus(s) == s.msg = "Failed to save via server." /\ s.isError

\* Slot t takes the step in which its saveCurrent returns false after a write
\* threw: it leaves the writes without reaching the commit.
SaveFails(t) ==
  tasks[t].pc \in Writing /\ tasks'[t].pc \notin (Writing \cup {"readme"})

\* Slot t takes a step in which a saveCurrent call starts and suspends.
SaveStarts(t) == tasks[t].op = "idle" /\ tasks'[t].pc \in Writing

\* C1: a save with no cell and no metadata input changed since the fragment
\* was loaded is a no-op, for every loadable fragment (ragged rows, absent
\* metadata file included): it reports "nothing to save", starts no write and
\* leaves the baseline, the metadata record and the recorded pass unchanged.
C1_UntouchedSaveIsNoop ==
  [][ ( /\ \E t \in Slots : ClickSave(t)
        /\ AllIdle
        /\ ~edited
        /\ currentIndex >= 0
        /\ origin = [doc |-> currentIndex, baseline |-> currentIndex] )
      => ( /\ status' = Status("No changes to save", currentIndex, FALSE)
           /\ UNCHANGED <<tasks, serverVars, baselineVars, meta, metaLevel>> )
    ]_vars

\* C2: a save that finds the document changed while the pass input holds no
\* pass number builds, and then writes, metadata whose pass number is the
\* recorded previous pass plus one (an absent previous pass counting as 0).
C2_AutoAssignedPass ==
  [][ \A t \in Slots :
        /\ ( SaveStarts(t) /\ tasks'[t].csvChanged
             /\ parsePassInput(metaLevel) = 0 )
           => ( /\ tasks'[t].metadata.proofread_pass = originalPass + 1
                /\ tasks'[t].metadataChanged )
        /\ ( tasks[t].pc = "meta_write" /\ tasks'[t].pc = "readme" )
           => ( /\ storedMeta'[tasks[t].item].file = "json"
                /\ JsonParse(storedMeta'[tasks[t].item].text).proofread_pass
                     = tasks[t].metadata.proofread_pass )
    ]_vars

\* C2 witness: a metadata file carries pass 2, which only an auto-assignment
\* over the recorded pass 1 produces.
C2_Witness ==
  \E i \in Items :
    /\ storedMeta[i].file = "json"
    /\ JsonParse(storedMeta[i].text).proofread_pass = 2

\* C3: every step of a save that does not end in success - its start, a
\* document write that succeeded with the metadata write still to come, a write
\* that failed - leaves the baseline serializations, the recorded pass and the
\* metadata record as they were; after a failed write the save returns false
\* (the call is over, an error is reported, navigation does not go on).
C3_FailedSaveKeepsBaseline ==
  [][ \A t \in Slots :
        /\ ( tasks'[t] # tasks[t] /\ tasks'[t].pc # "readme"
             /\ (tasks[t].pc \in Writing \/ tasks'[t].pc \in Writing) )
           => UNCHANGED <<baselineVars, meta, itemMeta>>
        /\ SaveFails(t)
           => ( tasks'[t] = IdleTask /\ SaveFailedStatus(status')
                /\ UNCHANGED serverVars )
    ]_vars

\* C3 witness: a save failed after its document write had succeeded, so the
\* stored document differs from the untouched baseline.
C3_Witness ==
  /\ AllIdle
  /\ SaveFailedStatus(status)
  /\ currentIndex >= 0
  /\ origin.doc = currentIndex
  /\ storedCsv[currentIndex] # originalCsvSerialized
  /\ parseCsv(storedCsv[currentIndex]) = tableData

\* A saveCurrent call is made in this step: by the save button, or by a
\* navigateTo that saves first.
SaveCalled ==
  \/ \E t \in Slots : ClickSave(t) /\ currentIndex >= 0
  \/ \E t \in Slots, index \in Items : NavigateTo(t, index) /\ navigateSavesFirst

IssuedNow(pc) == \E t \in Slots : tasks[t].op = "idle" /\ tasks'[t].pc = pc

\* C4 as stated: a save issues the document write iff the document
\* serialization differs from the baseline, and the metadata write iff the
\* metadata serialization differs from the baseline.
C4_WritesIffChanged ==
  [][ /\ SaveCalled => (IssuedNow("csv_write") <=> saveCsvChanged)
      /\ (SaveCalled /\ ~saveCsvChanged)
           => (IssuedNow("meta_write") <=> saveMetadataChanged)
      /\ \A t \in Slots :
           (tasks[t].pc = "csv_write" /\ tasks'[t] # tasks[t])
             => (tasks'[t].pc = "meta_write" <=> tasks[t].metadataChanged)
    ]_vars

\* C4 amended: the document write is issued iff the document serialization
\* differs from the baseline; the metadata write is issued iff the metadata
\* serialization differs from the baseline and the document write, when there
\* is one, did not fail.
C4_WritesIffChangedAndDocumentWritten ==
  [][ /\ SaveCalled => (IssuedNow("csv_write") <=> saveCsvChanged)
      /\ (SaveCalled /\ ~saveCsvChanged)
           => (IssuedNow("meta_write") <=> saveMetadataChanged)
      /\ \A t \in Slots :
           (tasks[t].pc = "csv_write" /\ tasks'[t] # tasks[t])
             => ( /\ tasks'[t].pc = "meta_write"
                    <=> (tasks[t].metadataChanged /\ ~SaveFails(t))
                  /\ ~SaveFails(t) => storedCsv'[tasks[t].item] = tasks[t].csv
                  /\ SaveFails(t) => UNCHANGED serverVars )
    ]_vars

\* C4 witness: a save that changed both is past its document write and
\* suspended at its metadata write.
C4_Witness ==
  \E t \in Slots :
    /\ tasks[t].pc = "meta_write"
    /\ tasks[t].csvChanged
    /\ storedCsv[tasks[t].item] = tasks[t].csv

\* C5: when a save succeeds, the baseline document serialization is the one
\* the save compared and wrote, the baseline metadata serialization is that of
\* the record the save built, and the recorded pass is that record's pass
\* number; a save that found nothing to save already satisfies all three.
C5_SuccessReplacesBaseline ==
  [][ /\ \A t \in Slots :
           (tasks[t].pc \in Writing /\ tasks'[t].pc = "readme")
             => ( /\ originalCsvSerialized' = tasks[t].csv
                  /\ originalMetaSerialized' = JsonStringify(tasks[t].metadata)
                  /\ originalPass' = tasks[t].metadata.proofread_pass
                  /\ meta' = tasks[t].metadata )
      /\ (SaveCalled /\ ~saveDidSave)
           => ( /\ originalCsvSerialized' = saveCsvSerialized
                /\ originalMetaSerialized' = JsonStringify(saveMetadata)
                /\ originalPass' = saveMetadata.proofread_pass )
    ]_vars

\* C5 witness: a save has just succeeded while the rows were edited during
\* its write, so the baseline is what was written and not what is on screen.
C5_Witness ==
  \E t \in Slots :
    /\ tasks[t].pc = "readme"
    /\ tasks[t].csvChanged
    /\ originalCsvSerialized = tasks[t].csv
    /\ storedCsv[tasks[t].item] = tasks[t].csv
    /\ serializeCsv(tableData) # originalCsvSerialized

\* C6: navigateTo with a valid pass number in the pass input calls
\* saveCurrent first and loads nothing while that save is in flight; if the
\* save fails the navigation ends there, with the current fragment, its rows
\* and its baseline untouched; loadItem starts only once the save succeeded.
C6_NavigateSavesFirst ==
  [][ /\ \A t \in Slots, index \in Items :
           ( NavigateTo(t, index) /\ currentIndex >= 0
             /\ parsePassInput(metaLevel) # 0 /\ saveDidSave )
             => ( /\ tasks'[t].op = "nav" /\ tasks'[t].pc \in Writing
                  /\ tasks'[t].index = index
                  /\ UNCHANGED <<currentIndex, documentVars, baselineVars, meta>> )
      /\ \A t \in Slots :
           (tasks[t].op = "nav" /\ SaveFails(t))
             => ( /\ tasks'[t] = IdleTask
                  /\ SaveFailedStatus(status')
                  /\ UNCHANGED <<currentIndex, documentVars, baselineVars, meta,
                                 serverVars>> )
      /\ \A t \in Slots :
           ( tasks[t].op = "nav" /\ tasks[t].pc # "csv_read"
             /\ tasks'[t].pc = "csv_read" )
             => tasks[t].pc = "readme"
    ]_vars

\* C6 witness: a navigation's save failed; the fragment it was leaving is
\* still the current one, with its edited rows and its old baseline.
C6_Witness ==
  /\ AllIdle
  /\ SaveFailedStatus(status)
  /\ currentIndex >= 0
  /\ status.base = currentIndex
  /\ parsePassInput(metaLevel) # 0
  /\ origin = [doc |-> currentIndex, baseline |-> currentIndex]
  /\ serializeCsv(tableData) # originalCsvSerialized

\* C7: navigateTo with no valid pass number in the pass input makes no write:
\* it goes straight to loadItem, whose steps never change a stored file, and
\* the rows that replace the edited ones are parsed from the stored document.
C7_NavigateWithoutPassDiscards ==
  [][ /\ \A t \in Slots, index \in Items :
           (NavigateTo(t, index) /\ parsePassInput(metaLevel) = 0)
             => ( /\ tasks'[t].op = "nav" /\ tasks'[t].pc = "csv_read"
                  /\ currentIndex' = index
                  /\ UNCHANGED <<viewerVars, serverVars, metaLevel>> )
      /\ \A t \in Slots :
           (tasks[t].pc \in {"csv_read", "meta_read"} /\ tasks'[t] # tasks[t])
             => UNCHANGED serverVars
      /\ \A t \in Slots :
           (tasks[t].pc = "csv_read" /\ tasks'[t].pc = "meta_read")
             => tableData' = parseCsv(storedCsv[tasks[t].index])
    ]_vars

\* C7 witness: a navigation is loading the target while the rows hold unsaved
\* edits and the pass input holds no pass number.
C7_Witness ==
  \E t \in Slots :
    /\ tasks[t].op = "nav"
    /\ tasks[t].pc = "csv_read"
    /\ parsePassInput(metaLevel) = 0
    /\ edited
    /\ origin.doc # -1
    /\ tasks[t].index # origin.doc
    /\ serializeCsv(tableData) # originalCsvSerialized
    /\ storedCsv[origin.doc] = originalCsvSerialized

\* C8: when the CSV read of a load fails, the session still describes the
\* fragment that was loaded before: the current index is that fragment's.
C8_FailedLoadKeepsSession ==
  ( /\ status.msg = "Failed to read CSV from server."
    /\ AllIdle
    /\ origin.doc # -1 )
  => ( currentIndex = origin.doc /\ currentIndex = origin.baseline )

\* C9: once no load is in flight, the current index, the rows and the
\* baseline all belong to the fragment requested last, whatever the order in
\* which the reads completed.
C9_SupersededLoadIgnored ==
  (AllIdle /\ status.msg = "Loaded")
  => ( /\ status.base = currentIndex
       /\ origin = [doc |-> currentIndex, baseline |-> currentIndex] )

\* C10: at most one session operation (save, navigate, load) is suspended at
\* an await at any time.
C10_OneOperationAtATime ==
  Cardinality({t \in Slots : tasks[t].op # "idle"}) <= 1

\* ================================================================== viewer
\* loadWords of the word-list viewer: the fetched list's ranges_by_pass is
\* merged, a checker is built over the result and called once per data row.
MaxRow == 3
MaxEntries == 2
NPasses == 2

Rows == 1 .. MaxRow

\* Pairs are taken as they come: start after end is not excluded.
RangeEntries ==
  {PairEntry(a, b) : a \in Rows, b \in Rows} \cup {NumberEntry(n) : n \in Rows}
    \cup {OtherEntry}

\* The entries of all passes in one list, each with its pass, passes ascending.
TaggedLists ==
  UNION {{flat \in [1 .. k -> (1 .. NPasses) \X RangeEntries] :
            \A i \in 1 .. (k - 1) : flat[i][1] <= flat[i + 1][1]} :
         k \in 0 .. MaxEntries}

EntriesOfPass(flat, passKey) ==
  LET own == SelectSeq(flat, LAMBDA tagged : tagged[1] = passKey)
  IN [i \in 1 .. Len(own) |-> own[i][2]]

\* Every ranges_by_pass over passes 1 .. NPasses with at most MaxEntries entries.
RangeInputs ==
  {[passKey \in 1 .. NPasses |-> EntriesOfPass(flat, passKey)] :
     flat \in TaggedLists}

\* The editor page is not open.
EditorOff ==
  /\ storedCsv = [i \in Items |-> <<>>]
  /\ storedMeta = [i \in Items |-> AbsentFile]
  /\ localStorageBy = ""
  /\ itemCount = 0
  /\ itemMeta = [i \in Items |-> NullMeta]
  /\ currentIndex = -1
  /\ tableData = <<>>
  /\ columnNames = <<>>
  /\ selectedRow = -1
  /\ selectedCol = -1
  /\ meta = NullMeta
  /\ originalCsvSerialized = <<>>
  /\ originalMetaSerialized = <<>>
  /\ originalPass = 0
  /\ sessionStartedAt = 0
  /\ metaLevel = ""
  /\ metaBy = ""
  /\ metaNotes = ""
  /\ status = Status("", -1, FALSE)
  /\ tasks = [t \in Slots |-> IdleTask]
  /\ now = 2
  /\ events = 0
  /\ edited = FALSE
  /\ hist = NoSaves
  /\ origin = [doc |-> -1, baseline |-> -1]

\* The list text has arrived; nothing of it is processed yet.
ViewerInit ==
  /\ EditorOff
  /\ viewerPc = "fetched"
  /\ rangesByPass \in RangeInputs
  /\ proofreadRanges = NullRanges
  /\ rangeIndex = 0
  /\ rowIndex = 0
  /\ proofread = FALSE
  /\ ListOff
  /\ SearchOff

\* loadWords: collectProofreadRanges(stats) and createRangeChecker(...).
LoadWords ==
  /\ viewerPc = "fetched"
  /\ viewerPc' = "scan"
  /\ proofreadRanges' = collectProofreadRanges(rangesByPass)
  /\ rangeIndex' = 0
  /\ UNCHANGED <<editorVars, rangesByPass, rowIndex, proofread, listVars,
                 searchVars>>

\* loadWords' row loop calls isProofreadRow(row) with growing row indices
\* (none is called when createRangeChecker returned null).
IsProofreadRow(row) ==
  /\ viewerPc = "scan"
  /\ proofreadRanges # NullRanges
  /\ row >= rowIndex
  /\ rowIndex' = row
  /\ rangeIndex' = checkerAdvance(proofreadRanges, rangeIndex, row)
  /\ proofread' = checkerResult(proofreadRanges, rangeIndex', row)
  /\ UNCHANGED <<editorVars, viewerPc, rangesByPass, proofreadRanges, listVars,
                 searchVars>>

ViewerNext ==
  \/ LoadWords
  \/ \E row \in 1 .. (MaxRow + 1) : IsProofreadRow(row)

ViewerSpec == ViewerInit /\ [][ViewerNext]_vars

\* A row lies inside one of the ranges of a list.
InRanges(ranges, row) ==
  \E i \in 1 .. Len(ranges) : ranges[i][1] <= row /\ row <= ranges[i][2]

\* A row is validated by some pass of the input.
InInput(row) ==
  \E passKey \in DOMAIN rangesByPass :
    \E k \in 1 .. Len(rangesByPass[passKey]) :
      LET entry == rangesByPass[passKey][k]
      IN entry.kind \in {"pair", "number"} /\ entry.a <= row /\ row <= entry.b

\* C11: the merged list is sorted by start and each range starts more than one
\* row after the end of the range before it; ranges of different passes that
\* touch are joined: {1: [[1,5]], 2: [[6,10]]} merges to [[1,10]].
C11_MergedSortedAndSeparated ==
  /\ viewerPc = "scan" =>
       \A i \in 1 .. (Len(proofreadRanges) - 1) :
         /\ proofreadRanges[i][1] <= proofreadRanges[i + 1][1]
         /\ proofreadRanges[i + 1][1] > proofreadRanges[i][2] + 1
  /\ collectProofreadRanges(<< <<PairEntry(1, 5)>>, <<PairEntry(6, 10)>> >>)
       = << <<1, 10>> >>

\* Two touching ranges of different passes were merged into one.
C11_Witness ==
  /\ viewerPc = "scan"
  /\ rangesByPass = << <<PairEntry(3, 3)>>, <<PairEntry(1, 2)>> >>
  /\ proofreadRanges = << <<1, 3>> >>

\* C12: a row lies inside a merged range exactly when some pass of the input
\* validates it (by a range or by a single index).
C12_MergedCoversExactlyValidated ==
  viewerPc = "scan" =>
    \A row \in 0 .. (MaxRow + 2) : InRanges(proofreadRanges, row) <=> InInput(row)

\* A single index that lies inside a range of another pass was merged into it.
C12_Witness ==
  /\ viewerPc = "scan"
  /\ rangesByPass = << <<PairEntry(1, 3)>>, <<NumberEntry(2)>> >>
  /\ proofreadRanges = << <<1, 3>> >>

\* The rows, of first .. last asked in this order, for which a checker over
\* `ranges` with its cursor at rangeIndex answers true.
RECURSIVE checkerScan(_, _, _, _)
checkerScan(ranges, index, first, last) ==
  IF first > last THEN {}
  ELSE LET next == checkerAdvance(ranges, index, first)
       IN (IF checkerResult(ranges, next, first) THEN {first} ELSE {})
            \cup checkerScan(ranges, next, first + 1, last)

\* C13: a checker asked with non-decreasing rows answers true exactly for the
\* rows inside a merged range; over [[1,3],[10,12]] it answers true for
\* 1,2,3,10,11,12 and false for 4..9 and 13.
C13_CheckerAnswersMembership ==
  /\ (viewerPc = "scan" /\ rowIndex # 0) =>
       (proofread <=> InRanges(proofreadRanges, rowIndex))
  /\ checkerScan(<< <<1, 3>>, <<10, 12>> >>, 0, 1, 13) = {1, 2, 3, 10, 11, 12}

\* The checker moved its cursor to the second range and answered true.
C13_Witness ==
  /\ viewerPc = "scan"
  /\ proofreadRanges = << <<1, 1>>, <<3, 3>> >>
  /\ rangeIndex = 1
  /\ rowIndex = 3
  /\ proofread

\* ============================================================ table editor
\* Cell texts and input texts are sequences of one-character strings.
SP == " "
MINUS == "-"
PLUS == "+"

Digits == <<"0", "1", "2", "3", "4", "5", "6", "7", "8", "9">>

IsDigit(char) == \E d \in 1 .. Len(Digits) : Digits[d] = char

DigitValue(char) == (CHOOSE d \in 1 .. Len(Digits) : Digits[d] = char) - 1

\* An optional integer: <<>> is null, <<n>> the integer n.
None == <<>>
Some(n) == <<n>>

\* String.prototype.trim.
RECURSIVE TrimStart(_)
TrimStart(text) ==
  IF text # <<>> /\ Head(text) = SP THEN TrimStart(Tail(text)) ELSE text

RECURSIVE TrimEnd(_)
TrimEnd(text) ==
  IF text # <<>> /\ text[Len(text)] = SP
  THEN TrimEnd(SubSeq(text, 1, Len(text) - 1))
  ELSE text

Trim(text) == TrimEnd(TrimStart(text))

\* The value of the leading run of digits of a text, most significant first.
RECURSIVE LeadingDigits(_, _)
LeadingDigits(text, acc) ==
  IF text # <<>> /\ IsDigit(Head(text))
  THEN LeadingDigits(Tail(text), acc * 10 + DigitValue(Head(text)))
  ELSE acc

\* Number.parseInt(text, 10): leading blanks, an optional sign, then digits up
\* to the first other character; NaN (None) when no digit follows.
parseIntText(text) ==
  LET t == TrimStart(text)
      signed == t # <<>> /\ Head(t) \in {MINUS, PLUS}
      rest == IF signed THEN Tail(t) ELSE t
  IN IF rest = <<>> \/ ~IsDigit(Head(rest)) THEN None
     ELSE IF signed /\ Head(t) = MINUS
          THEN Some(0 - LeadingDigits(rest, 0))
          ELSE Some(LeadingDigits(rest, 0))

\* String(n) of an integer.
RECURSIVE NatText(_)
NatText(n) ==
  IF n < 10 THEN <<Digits[n + 1]>>
  ELSE NatText(n \div 10) \o <<Digits[(n % 10) + 1]>>

StringOf(n) == IF n < 0 THEN <<MINUS>> \o NatText(0 - n) ELSE NatText(n)

\* /^-?\d+$/.test(text)
MatchesInteger(text) ==
  LET rest == IF text # <<>> /\ Head(text) = MINUS THEN Tail(text) ELSE text
  IN rest # <<>> /\ \A i \in 1 .. Len(rest) : IsDigit(rest[i])

\* parseIntegerInput(value) of the shift panel's inputs.
parseIntegerInput(value) ==
  LET text == Trim(value)
  IN IF text = <<>> THEN None ELSE parseIntText(text)

\* row[colIndex] ?? "" with a 0-based column.
CellOr(row, colIndex) ==
  IF colIndex + 1 \in 1 .. Len(row) THEN row[colIndex + 1] ELSE <<>>

\* row[colIndex] = value; a JavaScript array grows when the index is past its end.
SetCell(row, colIndex, value) ==
  [c \in 1 .. MaxOf({Len(row), colIndex + 1}) |->
     IF c = colIndex + 1 THEN value ELSE CellOr(row, c - 1)]

shiftDestinationBackwards(i, delta) == i - delta

\* shiftColumnCells: where the value at offset i of the range goes.
shiftDestination(i, delta) == i + delta

\* The first loop of shiftColumnCells; acc is [shifted, moved].
RECURSIVE shiftLoop(_, _, _, _, _, _, _)
shiftLoop(rows, colIndex, startRow, length, delta, i, acc) ==
  IF i >= length THEN acc
  ELSE LET nextIndex == shiftDestination(i, delta)
       IN IF nextIndex < 0 \/ nextIndex >= length
          THEN shiftLoop(rows, colIndex, startRow, length, delta, i + 1, acc)
          ELSE LET value == CellOr(rows[startRow + i + 1], colIndex)
               IN shiftLoop(rows, colIndex, startRow, length, delta, i + 1,
                            [shifted |-> [acc.shifted EXCEPT ![nextIndex + 1] = value],
                             moved |-> IF value # <<>> THEN acc.moved + 1
                                       ELSE acc.moved])

shiftColumnCellsClearsColumn(rows, colIndex, startRow, endRow, delta) ==
  [rows |-> [r \in 1 .. Len(rows) |-> SetCell(rows[r], colIndex, <<>>)], count |-> 0]

\* shiftColumnCells(colIndex, startRow, endRow, delta) on `rows` (rows and
\* columns 0-based as in the source): the new rows and the returned count.
shiftColumnCells(rows, colIndex, startRow, endRow, delta) ==
  LET length == endRow - startRow + 1
      done == shiftLoop(rows, colIndex, startRow, length, delta, 0,
                        [shifted |-> [k \in 1 .. length |-> <<>>], moved |-> 0])
  IN [rows |-> [r \in 1 .. Len(rows) |->
                  IF r - 1 >= startRow /\ r - 1 <= endRow
                  THEN SetCell(rows[r], colIndex, done.shifted[r - startRow])
                  ELSE rows[r]],
      count |-> done.moved]

offsetValueIgnoresDelta(value, delta) == value

\* offsetColumnNumbers: the number written for a cell that holds `value`.
offsetValue(value, delta) == value + delta

\* offsetColumnNumbers: is the cell of this row rewritten?
offsetApplies(row, colIndex) == MatchesInteger(Trim(CellOr(row, colIndex)))

\* offsetColumnNumbers(colIndex, startRow, endRow, delta) on `rows`.
offsetColumnNumbers(rows, colIndex, startRow, endRow, delta) ==
  LET inRange(r) == r - 1 >= startRow /\ r - 1 <= endRow
      next(row) == offsetValue(parseIntText(Trim(CellOr(row, colIndex)))[1], delta)
  IN [rows |-> [r \in 1 .. Len(rows) |->
                  IF inRange(r) /\ offsetApplies(rows[r], colIndex)
                  THEN SetCell(rows[r], colIndex, StringOf(next(rows[r])))
                  ELSE rows[r]],
      count |-> Cardinality({r \in 1 .. Len(rows) :
                               inRange(r) /\ offsetApplies(rows[r], colIndex)})]

\* The loop of findRowByColumnValue from 0-based row i in direction step.
RECURSIVE findRowLoop(_, _, _, _, _)
findRowLoop(rows, colIndex, target, i, step) ==
  IF i < 0 \/ i >= Len(rows) THEN None
  ELSE IF colIndex + 1 \in 1 .. Len(rows[i + 1])
            /\ Trim(rows[i + 1][colIndex + 1]) = target
       THEN Some(i)
       ELSE findRowLoop(rows, colIndex, target, i + step, step)

findRowByColumnValueFromStart(rows, colIndex, value, fromEnd) ==
  findRowLoop(rows, colIndex, Trim(StringOf(value)), 0, 1)

\* findRowByColumnValue(colIndex, value, fromEnd) for an integer value.
findRowByColumnValue(rows, colIndex, value, fromEnd) ==
  IF fromEnd THEN findRowLoop(rows, colIndex, Trim(StringOf(value)), Len(rows) - 1, -1)
  ELSE findRowLoop(rows, colIndex, Trim(StringOf(value)), 0, 1)

\* ensureShiftColumn(): the column it returns (-1 for null); it stores the
\* column it picks in state.selectedCol.
ensureShiftColumn ==
  IF selectedCol # -1 THEN selectedCol
  ELSE IF findColumnIndexByName(columnNames, "index") # -1
       THEN findColumnIndexByName(columnNames, "index")
       ELSE IF Len(columnNames) > 0 THEN 0 ELSE -1

MinOf(S) == CHOOSE m \in S : \A x \in S : m <= x

deltaRejectedWhenMissing(delta) == delta = None

\* applyShift line 770: delta === null || delta === 0.
deltaRejected(delta) == delta = None \/ delta = Some(0)

clampRowFromZero(n, rowCount) == MinOf({MaxOf({n, 0}), rowCount})

\* applyShift lines 847-848: Math.min(Math.max(n, 1), rowCount).
clampRow(n, rowCount) == MinOf({MaxOf({n, 1}), rowCount})

\* applyShift() with the shift panel's inputs holding the given texts: the
\* rows, the selected column and the status it leaves, and the 0-based rows
\* startRow and endRow it resolved (none when the request is rejected). The
\* status of an accepted request names the range as rows or as index values.
applyShift(shiftBy, shiftStart, shiftEnd, shiftRange, shiftMode) ==
  LET targetCol == ensureShiftColumn
      reject(msg, col) ==
        [rows |-> tableData, selectedCol |-> col, status |-> Status(msg, -1, TRUE),
         range |-> <<>>]
      delta == parseIntegerInput(shiftBy)
      rowCount == Len(tableData)
      startInput == parseIntegerInput(shiftStart)
      endInput == parseIntegerInput(shiftEnd)
      indexCol == findColumnIndexByName(columnNames, "index")
      foundStart == IF startInput = None THEN Some(0)
                    ELSE findRowByColumnValue(tableData, indexCol, startInput[1], FALSE)
      foundEnd == IF endInput = None THEN Some(rowCount - 1)
                  ELSE findRowByColumnValue(tableData, indexCol, endInput[1], TRUE)
      bothMissing == startInput = None /\ endInput = None
      rawStart == IF bothMissing
                  THEN (IF selectedRow # -1 THEN selectedRow + 1 ELSE 1)
                  ELSE IF startInput = None THEN 1 ELSE startInput[1]
      rawEnd == IF bothMissing
                THEN (IF selectedRow # -1 THEN selectedRow + 1 ELSE rowCount)
                ELSE IF endInput = None THEN rowCount ELSE endInput[1]
      clamp(n) == clampRow(n, rowCount)
      exceeds == \/ (startInput # None /\ startInput[1] > rowCount)
                 \/ (endInput # None /\ endInput[1] > rowCount)
      apply(startRow, endRow, rangeLabel) ==
        LET done == IF shiftMode = "offset"
                    THEN offsetColumnNumbers(tableData, targetCol, startRow, endRow,
                                             delta[1])
                    ELSE shiftColumnCells(tableData, targetCol, startRow, endRow,
                                          delta[1])
        IN [rows |-> done.rows, selectedCol |-> targetCol,
            status |-> Status((IF shiftMode = "offset" THEN "Offset" ELSE "Shifted")
                                \o rangeLabel, done.count, FALSE),
            range |-> <<startRow, endRow>>]
  IN IF rowCount = 0 THEN reject("No rows to shift.", selectedCol)
     ELSE IF targetCol = -1
     THEN reject("No columns available to shift.", selectedCol)
     ELSE IF deltaRejected(delta)
     THEN reject("Shift value must be a non-zero number.", targetCol)
     ELSE IF shiftRange = "index" /\ ~bothMissing
     THEN IF indexCol = -1
          THEN reject("Index column not found for Index values range.", targetCol)
          ELSE IF foundStart = None \/ foundEnd = None
          THEN reject("Index value not found.", targetCol)
          ELSE apply(MinOf({foundStart[1], foundEnd[1]}),
                     MaxOf({foundStart[1], foundEnd[1]}), " index")
     ELSE IF shiftRange = "row" /\ exceeds /\ indexCol # -1
     THEN reject("Row range exceeds the row count.", targetCol)
     ELSE apply(MinOf({clamp(rawStart), clamp(rawEnd)}) - 1,
                MaxOf({clamp(rawStart), clamp(rawEnd)}) - 1, "")

\* Array.prototype.splice(at, 0, item) and splice(at, 1), `at` 0-based.
InsertAt(seq, at, item) ==
  LET k == MinOf({at, Len(seq)})
  IN SubSeq(seq, 1, k) \o <<item>> \o SubSeq(seq, k + 1, Len(seq))

RemoveAt(seq, at) ==
  IF at >= Len(seq) THEN seq
  ELSE SubSeq(seq, 1, at) \o SubSeq(seq, at + 2, Len(seq))

\* What the table controls leave alone.
tableFrame ==
  <<viewerVars, serverVars, localStorageBy, itemCount, itemMeta, currentIndex,
    meta, baselineVars, sessionStartedAt, inputVars, tasks, now, origin>>

\* The reviewer uses the table controls once a load has ended.
TableShown == AllIdle /\ events < MaxEvents

\* A cell input's "focus" event (lines 563-567); row and column 0-based.
FocusCell(row, col) ==
  /\ TableShown
  /\ row >= 0 /\ row < Len(tableData)
  /\ col >= 0 /\ col < Len(tableData[row + 1])
  /\ selectedRow # row \/ selectedCol # col
  /\ events' = events + 1
  /\ selectedRow' = row
  /\ selectedCol' = col
  /\ UNCHANGED <<tableFrame, documentVars, status, edited, hist>>

\* A row header's "click" event (lines 541-545).
ClickRowHeader(row) ==
  /\ TableShown
  /\ row >= 0 /\ row < Len(tableData)
  /\ selectedRow # row \/ selectedCol # -1
  /\ events' = events + 1
  /\ selectedRow' = row
  /\ selectedCol' = -1
  /\ UNCHANGED <<tableFrame, documentVars, status, edited, hist>>

\* A column-name input's "focus" event (lines 525-529).
FocusColumnName(col) ==
  /\ TableShown
  /\ col >= 0 /\ col < Len(columnNames)
  /\ selectedRow # -1 \/ selectedCol # col
  /\ events' = events + 1
  /\ selectedCol' = col
  /\ selectedRow' = -1
  /\ UNCHANGED <<tableFrame, documentVars, status, edited, hist>>

\* addRow (lines 873-879).
AddRow ==
  /\ TableShown
  /\ events' = events + 1
  /\ LET insertAt == IF selectedRow # -1 THEN selectedRow + 1 ELSE Len(tableData)
         newRow == [c \in 1 .. Len(columnNames) |-> <<>>]
     IN /\ tableData' = InsertAt(tableData, insertAt, newRow)
        /\ selectedRow' = insertAt
  /\ edited' = TRUE
  /\ hist' = [hist EXCEPT !.touched = TRUE]
  /\ UNCHANGED <<tableFrame, columnNames, selectedCol, status>>

\* removeRow (lines 881-889).
RemoveRow ==
  /\ TableShown
  /\ Len(tableData) # 0
  /\ events' = events + 1
  /\ LET removeAt == IF selectedRow # -1 THEN selectedRow ELSE Len(tableData) - 1
     IN tableData' = RemoveAt(tableData, removeAt)
  /\ selectedRow' = -1
  /\ edited' = TRUE
  /\ hist' = [hist EXCEPT !.touched = TRUE]
  /\ UNCHANGED <<tableFrame, columnNames, selectedCol, status>>

\* addColumn (lines 891-897).
AddColumn ==
  /\ TableShown
  /\ Len(columnNames) < Len(ColumnLabel)
  /\ events' = events + 1
  /\ LET insertAt == IF selectedCol # -1 THEN selectedCol + 1 ELSE Len(columnNames)
     IN /\ columnNames' = InsertAt(columnNames, insertAt,
                                   ColumnLabel[Len(columnNames) + 1])
        /\ tableData' = [r \in 1 .. Len(tableData) |->
                           InsertAt(tableData[r], insertAt, <<>>)]
        /\ selectedCol' = insertAt
  /\ edited' = TRUE
  /\ hist' = [hist EXCEPT !.touched = TRUE]
  /\ UNCHANGED <<tableFrame, selectedRow, status>>

\* removeColumn (lines 899-908).
RemoveColumn ==
  /\ TableShown
  /\ Len(columnNames) > 1
  /\ events' = events + 1
  /\ LET removeAt == IF selectedCol # -1 THEN selectedCol ELSE Len(columnNames) - 1
     IN /\ columnNames' = RemoveAt(columnNames, removeAt)
        /\ tableData' = [r \in 1 .. Len(tableData) |-> RemoveAt(tableData[r], removeAt)]
  /\ selectedCol' = -1
  /\ edited' = TRUE
  /\ hist' = [hist EXCEPT !.touched = TRUE]
  /\ UNCHANGED <<tableFrame, selectedRow, status>>

\* The "Apply" button of the shift panel: applyShift (lines 760-871).
ApplyShift(shiftBy, shiftStart, shiftEnd, shiftRange, shiftMode) ==
  /\ TableShown
  /\ events' = events + 1
  /\ LET done == applyShift(shiftBy, shiftStart, shiftEnd, shiftRange, shiftMode)
     IN /\ tableData' = done.rows
        /\ selectedCol' = done.selectedCol
        /\ status' = done.status
  /\ edited' = TRUE
  /\ hist' = [hist EXCEPT !.touched = TRUE]
  /\ UNCHANGED <<tableFrame, columnNames, selectedRow>>

\* ------------------------------------------------------- table editor runs
\* The files of the fragments: fragment 0 holds a numbered list, a list with
\* a short row, or nothing; its record is absent or names a third column.
EditorCsvTexts ==
  { serializeCsv(<< << <<"1">>, <<"a">> >>, << <<"2">>, <<>> >>,
                    << <<"2">>, <<"b">> >> >>),
    <<"1", "0", ",", "a", LF, "a", "b", "c", LF, SP, "-", "3", ",", "b">>,
    <<>> }

ThreeColumnMeta ==
  MetaRecord("obj", 0, 1, PassLabel(1), "ann", 1, 1, "",
             <<"index", "word", "col-3">>)

EditorMetaFiles == { AbsentFile, JsonFile(JsonStringify(ThreeColumnMeta)) }

EditorCellValues == { <<>>, <<COMMA>>, <<DQ>>, <<LF>> }

\* The rows and columns the reviewer clicks on (0-based).
ClickedRows == { 1 }
ClickedCols == { 1 }

\* The texts the reviewer leaves in the shift panel before pressing Apply.
ShiftByInputs == { <<"x">>, <<"0">>, <<"1">> }
ShiftRangeInputs == { <<>>, <<"2">> }
ShiftRanges == { "row", "index" }
ShiftModes == { "shift", "offset" }

EditorInit ==
  /\ ViewerOff
  /\ storedCsv \in { [i \in Items |-> IF i = 0 THEN text ELSE <<"b", ",", "b">>] :
                       text \in EditorCsvTexts }
  /\ storedMeta \in { [i \in Items |->
                         IF i = 0 THEN file
                         ELSE JsonFile(JsonStringify(WrittenMeta(i)))] :
                        file \in EditorMetaFiles }
  /\ localStorageBy = ""
  /\ itemCount = 0
  /\ itemMeta = [i \in Items |-> NullMeta]
  /\ currentIndex = -1
  /\ tableData = <<>>
  /\ columnNames = <<>>
  /\ selectedRow = -1
  /\ selectedCol = -1
  /\ meta = NullMeta
  /\ originalCsvSerialized = <<>>
  /\ originalMetaSerialized = <<>>
  /\ originalPass = 0
  /\ sessionStartedAt = 0
  /\ metaLevel = ""
  /\ metaBy = ""
  /\ metaNotes = ""
  /\ status = Status("", -1, FALSE)
  /\ tasks = [t \in Slots |-> IF t = 1 THEN InitTask ELSE IdleTask]
  /\ now = 2
  /\ events = 0
  /\ edited = FALSE
  /\ hist = NoSaves
  /\ origin = [doc |-> -1, baseline |-> -1]

\* A cell input's "input" event once the table is shown.
TypeCell(row, col, value) ==
  /\ AllIdle
  /\ EditCell(row, col, value)

EditorNext ==
  \/ \E t \in Slots : RefreshItems(t)
  \/ \E t \in Slots : RefreshItemsFail(t)
  \/ \E t \in Slots : ReadCsvOk(t)
  \/ \E t \in Slots : ReadCsvFail(t)
  \/ \E t \in Slots : ReadMetaDone(t)
  \/ \E row \in ClickedRows, col \in ClickedCols : FocusCell(row, col)
  \/ \E row \in ClickedRows : ClickRowHeader(row)
  \/ \E col \in ClickedCols : FocusColumnName(col)
  \/ \E cell \in EditableCells, value \in EditorCellValues :
       TypeCell(cell[1], cell[2], value)
  \/ AddRow
  \/ RemoveRow
  \/ AddColumn
  \/ RemoveColumn
  \/ \E shiftBy \in ShiftByInputs, shiftStart \in ShiftRangeInputs,
        shiftEnd \in ShiftRangeInputs, shiftRange \in ShiftRanges,
        shiftMode \in ShiftModes :
       ApplyShift(shiftBy, shiftStart, shiftEnd, shiftRange, shiftMode)

EditorSpec == EditorInit /\ [][EditorNext]_vars

\* C14: parsing the serialization of a cell grid (at least one column, every
\* row as long as the column names) gives the grid back, cell for cell and row
\* for row.
C14_CsvRoundTrip ==
  (/\ Len(columnNames) >= 1
   /\ \A r \in 1..Len(tableData) : Len(tableData[r]) = Len(columnNames))
    => parseCsv(serializeCsv(tableData)) = tableData

\* The rows of the loaded fragment as parseCsv returned them.
LoadedRows == parseCsv(storedCsv[origin.doc])

\* C15: once a load has ended, and after any table operation, every row has as
\* many cells as there are column names; the load keeps every parsed cell and
\* fills short rows with empty cells.
C15_RowsMatchColumns ==
  AllIdle =>
    /\ \A r \in 1 .. Len(tableData) : Len(tableData[r]) = Len(columnNames)
    /\ (origin.doc >= 0 /\ ~edited) =>
         /\ Len(tableData) = Len(LoadedRows)
         /\ \A r \in 1 .. Len(tableData) :
              /\ Len(tableData[r]) >= Len(LoadedRows[r])
              /\ \A c \in 1 .. Len(tableData[r]) :
                   tableData[r][c] = IF c <= Len(LoadedRows[r])
                                     THEN LoadedRows[r][c] ELSE <<>>

\* A list with a short row and a three-column record was loaded, a row and a
\* column were added and an offset was applied.
C15_Witness ==
  /\ AllIdle
  /\ origin.doc = 0
  /\ Len(parseCsv(storedCsv[0])) = 3 /\ Len(parseCsv(storedCsv[0])[2]) = 1
  /\ Len(tableData) = 4
  /\ Len(columnNames) = 4
  /\ status.msg = "Offset"

ShiftDeltas == { -1, 1, 2 }

\* The 0-based row ranges and columns of the table.
RowRanges ==
  { range \in (0 .. Len(tableData) - 1) \X (0 .. Len(tableData) - 1) :
      range[1] <= range[2] }

Columns == 0 .. (Len(columnNames) - 1)

\* C18: after a shift by d over rows s..e of a column, position i of the range
\* holds what was at i - d when that lies in the range and is empty otherwise;
\* the count is the number of non-empty values that landed inside the range.
C18_ShiftMovesValues ==
  AllIdle =>
    \A col \in Columns, range \in RowRanges, d \in ShiftDeltas :
      LET s == range[1]
          e == range[2]
          done == shiftColumnCells(tableData, col, s, e, d)
      IN /\ \A i \in s .. e :
              CellOr(done.rows[i + 1], col) =
                IF i - d >= s /\ i - d <= e
                THEN CellOr(tableData[i - d + 1], col) ELSE <<>>
         /\ done.count =
              Cardinality({i \in s .. e : /\ i + d >= s /\ i + d <= e
                                          /\ CellOr(tableData[i + 1], col) # <<>>})

\* The numbered list's index column 1, 2, 2 was shifted down by one row.
C18_Witness ==
  /\ AllIdle
  /\ status = Status("Shifted", 2, FALSE)
  /\ Len(tableData) = 3
  /\ tableData[1][1] = <<>>
  /\ tableData[2][1] = <<"1">>
  /\ tableData[3][1] = <<"2">>

TextRow(text) == <<text>>

RejectedByTexts == { <<>>, <<"x">>, <<"0">> }
BoundaryTexts == { <<>>, <<"1">>, <<"2">>, <<"7">> }

\* The labels found in the index column.
IndexLabels ==
  LET indexCol == findColumnIndexByName(columnNames, "index")
  IN {Trim(CellOr(tableData[r], indexCol)) : r \in 1 .. Len(tableData)}

\* A boundary text names an index value no row carries.
Unlocatable(text) == text # <<>> /\ text \notin IndexLabels

Rejects(done) == done.rows = tableData /\ done.status.isError

GarbageFile == [file |-> "garbage", text |-> <<>>]

DisagreeingMeta(i) ==
  MetaRecord("obj", i, 1, <<"pass", 2>>, "ann", 1, 1, "", DEFAULT_COLUMNS)

LabelOnlyMeta(i) ==
  MetaRecord("obj", i, 0, <<"level", 2>>, "ann", 1, 1, "", DEFAULT_COLUMNS)

LoadMetaFiles(i) ==
  { AbsentFile, GarbageFile, JsonFile(JsonStringify(EmptyMeta)),
    JsonFile(JsonStringify(WrittenMeta(i))),
    JsonFile(JsonStringify(DisagreeingMeta(i))),
    JsonFile(JsonStringify(LabelOnlyMeta(i))) }

LoadCsvText(i) == IF i = 0 THEN <<"a", ",", "a">> ELSE <<"b", ",", "b">>

LoadPassInputs == { "", "2" }

LoadInit ==
  /\ ViewerOff
  /\ storedCsv = [i \in Items |-> LoadCsvText(i)]
  /\ storedMeta \in { f \in [Items -> UNION {LoadMetaFiles(i) : i \in Items}] :
                        \A i \in Items : f[i] \in LoadMetaFiles(i) }
  /\ localStorageBy = ""
  /\ itemCount = 0
  /\ itemMeta = [i \in Items |-> NullMeta]
  /\ currentIndex = -1
  /\ tableData = <<>>
  /\ columnNames = <<>>
  /\ selectedRow = -1
  /\ selectedCol = -1
  /\ meta = NullMeta
  /\ originalCsvSerialized = <<>>
  /\ originalMetaSerialized = <<>>
  /\ originalPass = 0
  /\ sessionStartedAt = 0
  /\ metaLevel = ""
  /\ metaBy = ""
  /\ metaNotes = ""
  /\ status = Status("", -1, FALSE)
  /\ tasks = [t \in Slots |-> IF t = 1 THEN InitTask ELSE IdleTask]
  /\ now = 2
  /\ events = 0
  /\ edited = FALSE
  /\ hist = NoSaves
  /\ origin = [doc |-> -1, baseline |-> -1]

LoadNext ==
  \/ \E t \in Slots : RefreshItems(t)
  \/ \E t \in Slots : RefreshItemsFail(t)
  \/ \E t \in Slots : ReadCsvOk(t)
  \/ \E t \in Slots : ReadCsvFail(t)
  \/ \E t \in Slots : ReadMetaDone(t)
  \/ \E t \in Slots : ClickSave(t)
  \/ \E t \in Slots : WriteCsvOk(t)
  \/ \E t \in Slots : WriteMetaOk(t)
  \/ \E t \in Slots : WriteFail(t)
  \/ \E t \in Slots : ReadmeDone(t)
  \/ \E cell \in EditableCells, value \in CellValues :
       EditCell(cell[1], cell[2], value)
  \/ \E value \in LoadPassInputs : EditPass(value)

LoadSpec == LoadInit /\ [][LoadNext]_vars

\* The label of record m is the one its pass number gives, and none when the
\* record has no pass number.
LabelFollowsPass(m) ==
  \/ m.proofread_pass = 0 /\ m.proofread_level = <<>>
  \/ m.proofread_pass > 0 /\ m.proofread_level = <<"pass", m.proofread_pass>>

\* C16: the record a save builds carries the label "pass-N" exactly when its
\* pass number is N and no label exactly when it has no pass number; the pass
\* number read from a loaded record that has a pass-number field is that field,
\* whatever its label says.
C16_LabelDerivedFromPass ==
  /\ currentIndex >= 0 => LabelFollowsPass(saveMetadata)
  /\ \A t \in Slots :
       tasks[t].pc \in Writing => LabelFollowsPass(tasks[t].metadata)
  /\ \A i \in Items :
       itemMeta[i].kind = "obj" /\ itemMeta[i].proofread_pass # 0 =>
         extractPassNumber(itemMeta[i]) = itemMeta[i].proofread_pass
  /\ (AllIdle /\ meta.kind = "obj" /\ meta.proofread_pass # 0) =>
       originalPass = meta.proofread_pass

\* A record with pass number 1 and label pass-2 was loaded, a cell was edited
\* and the save that is writing built a record with pass 2 and label pass-2.
C16_Witness ==
  /\ meta.proofread_pass = 1
  /\ meta.proofread_level = <<"pass", 2>>
  /\ originalPass = 1
  /\ \E t \in Slots :
       /\ tasks[t].pc \in Writing
       /\ tasks[t].csvChanged
       /\ tasks[t].metadata.proofread_pass = 2
       /\ tasks[t].metadata.proofread_level = <<"pass", 2>>

\* The metadata object findFirstUnproofreadIndex sees for fragment i when every
\* read succeeds: the cached one, else the parsed file.
SeenRecord(i) ==
  IF itemMeta[i].kind # "null" THEN itemMeta[i] ELSE readMetadata(i, TRUE)

LeastOf(S) == CHOOSE i \in S : \A j \in S : i <= j

\* The fragment the claim names: the first without a metadata file, else the
\* first whose derived pass number is absent or zero, else fragment 0.
FirstUnreviewed ==
  LET missing == {i \in Items : storedMeta[i].file = "absent"}
      unreviewed == {i \in Items : extractPassNumber(SeenRecord(i)) = 0}
  IN IF missing # {} THEN LeastOf(missing)
     ELSE IF unreviewed # {} THEN LeastOf(unreviewed)
     ELSE 0

\* C17: with the listing and every read succeeding, findFirstUnproofreadIndex
\* returns the first fragment without a metadata file, else the first fragment
\* whose derived pass number is absent or zero, else 0; and the scan of the
\* start-up search, before any user event, ends on that fragment.
C17_FirstUnreviewed ==
  /\ findFirstUnproofreadIndex(TRUE, [i \in Items |-> TRUE]).index = FirstUnreviewed
  /\ \A t \in Slots :
       (/\ tasks[t].op = "init" /\ tasks[t].pc = "csv_read"
        /\ events = 0
        /\ \A i \in Items : storedMeta[i].file # "absent"
        /\ \A i \in Items :
             i <= tasks[t].index =>
               (itemMeta[i].kind # "null" \/ storedMeta[i].file = "garbage"))
         => tasks[t].index = FirstUnreviewed

\* Every fragment has a file, fragment 0 carries pass 1 and fragment 1 an empty
\* object: the start-up search read both and loads fragment 1.
C17_Witness ==
  /\ tasks[1].op = "init" /\ tasks[1].pc = "csv_read"
  /\ tasks[1].index = 1
  /\ currentIndex = 1
  /\ events = 0
  /\ itemMeta[0].kind = "obj" /\ itemMeta[0].proofread_pass = 1
  /\ itemMeta[1].kind = "empty"
  /\ storedMeta[1].file = "json"

\* ===================================================== word viewer: search
\* Texts are sequences of code points, one string per code point.  A
\* tone-marked vowel is written base + tone ("a1" is U+0101, "u:" is U+00FC,
\* "u:4" is U+01DC); an ideograph is written by its reading ("<ma>" U+9A6C,
\* "<er>" U+513F, "<hua>" U+82B1, "<tong>" U+7AE5); "<?>" and "<*>" are the
\* full-width U+FF1F and U+FF0A.
STAR == "*"
QM == "?"
APOS == "'"
COLON == ":"
FullWidthQM == "<?>"
FullWidthSTAR == "<*>"

\* TONE_MARKS: mark, base, tone.
TONE_MARKS ==
  { <<"a1", "a", 1>>, <<"a2", "a", 2>>, <<"a3", "a", 3>>, <<"a4", "a", 4>>,
    <<"e1", "e", 1>>, <<"e2", "e", 2>>, <<"e3", "e", 3>>, <<"e4", "e", 4>>,
    <<"i1", "i", 1>>, <<"i2", "i", 2>>, <<"i3", "i", 3>>, <<"i4", "i", 4>>,
    <<"o1", "o", 1>>, <<"o2", "o", 2>>, <<"o3", "o", 3>>, <<"o4", "o", 4>>,
    <<"u1", "u", 1>>, <<"u2", "u", 2>>, <<"u3", "u", 3>>, <<"u4", "u", 4>>,
    <<"u:1", "u:", 1>>, <<"u:2", "u:", 2>>, <<"u:3", "u:", 3>>,
    <<"u:4", "u:", 4>> }

\* TONE_MARK_RE, TONE_DIGIT_RE, CJK_RE (the ideographs the model writes).
IsToneMark(char) == \E m \in TONE_MARKS : m[1] = char
ToneMarkOf(char) == CHOOSE m \in TONE_MARKS : m[1] = char
IsToneDigit(char) == char \in {"1", "2", "3", "4", "5"}
IsCjk(char) == char \in {"<ma>", "<er>", "<hua>", "<tong>"}

LowerAlphabet ==
  <<"a", "b", "c", "d", "e", "f", "g", "h", "i", "j", "k", "l", "m", "n", "o",
    "p", "q", "r", "s", "t", "u", "v", "w", "x", "y", "z">>
UpperAlphabet ==
  <<"A", "B", "C", "D", "E", "F", "G", "H", "I", "J", "K", "L", "M", "N", "O",
    "P", "Q", "R", "S", "T", "U", "V", "W", "X", "Y", "Z">>

toLowerCaseChar(char) ==
  IF \E i \in 1 .. Len(UpperAlphabet) : UpperAlphabet[i] = char
  THEN LowerAlphabet[CHOOSE i \in 1 .. Len(UpperAlphabet) : UpperAlphabet[i] = char]
  ELSE char

toLowerCase(text) == [i \in 1 .. Len(text) |-> toLowerCaseChar(text[i])]

IsLatinLetter(char) ==
  \E i \in 1 .. Len(LowerAlphabet) : LowerAlphabet[i] = toLowerCaseChar(char)

\* PINYIN_ALLOWED_RE, one character of the class (the flag i lets capitals in).
IsPinyinAllowed(char) ==
  \/ IsLatinLetter(char)
  \/ IsToneMark(char)
  \/ char \in {"u:", SP, STAR, QM, APOS}
  \/ IsDigit(char)

\* PINYIN_VOWEL_RE.
IsPinyinVowel(char) ==
  \/ toLowerCaseChar(char) \in {"a", "e", "i", "o", "u", "u:", "v"}
  \/ IsToneMark(char)

HasChar(text, Test(_)) == \E i \in 1 .. Len(text) : Test(text[i])

startsWith(text, prefix) ==
  Len(text) >= Len(prefix) /\ SubSeq(text, 1, Len(prefix)) = prefix

includes(text, part) ==
  \E i \in 0 .. (Len(text) - Len(part)) : SubSeq(text, i + 1, i + Len(part)) = part

\* text.replace(/\s+/g, " ")
RECURSIVE collapseSpaces(_)
collapseSpaces(text) ==
  IF text = <<>> THEN <<>>
  ELSE IF Head(text) = SP /\ Len(text) > 1 /\ text[2] = SP
       THEN collapseSpaces(Tail(text))
       ELSE <<Head(text)>> \o collapseSpaces(Tail(text))

\* text.split(/\s+/).filter(Boolean)
RECURSIVE splitTokens(_, _)
splitTokens(text, token) ==
  IF text = <<>> THEN (IF token = <<>> THEN <<>> ELSE <<token>>)
  ELSE IF Head(text) = SP
       THEN (IF token = <<>> THEN <<>> ELSE <<token>>) \o splitTokens(Tail(text), <<>>)
       ELSE splitTokens(Tail(text), Append(token, Head(text)))

normalizeQuery(value) == toLowerCase(Trim(value))

normalizePattern(value) ==
  [i \in 1 .. Len(value) |->
     IF value[i] = FullWidthQM THEN QM
     ELSE IF value[i] = FullWidthSTAR THEN STAR
     ELSE value[i]]

isLikelyPinyin(value) ==
  LET trimmed == Trim(normalizePattern(value))
  IN IF trimmed = <<>> THEN FALSE
     ELSE IF HasChar(trimmed, IsCjk) THEN FALSE
     ELSE IF \E i \in 1 .. Len(trimmed) : ~IsPinyinAllowed(trimmed[i]) THEN FALSE
     ELSE IF HasChar(trimmed, IsToneDigit) THEN TRUE
     ELSE HasChar(trimmed, IsPinyinVowel)

detectPinyinModeMarksFirst(value) ==
  IF HasChar(value, IsToneMark) THEN "marks"
  ELSE IF HasChar(value, IsToneDigit) THEN "digits"
  ELSE "plain"

detectPinyinMode(value) ==
  IF HasChar(value, IsToneDigit) THEN "digits"
  ELSE IF HasChar(value, IsToneMark) THEN "marks"
  ELSE "plain"

normalizePinyinMarks(value) ==
  LET lowered == toLowerCase(normalizePattern(value))
      folded == [i \in 1 .. Len(lowered) |->
                   IF lowered[i] = "v" THEN "u:" ELSE lowered[i]]
  IN Trim(collapseSpaces(folded))

RECURSIVE plainLoop(_)
plainLoop(text) ==
  IF text = <<>> THEN <<>>
  ELSE LET char == Head(text)
       IN (IF char \in {STAR, QM, SP} THEN <<char>>
           ELSE IF IsToneDigit(char) THEN <<>>
           ELSE IF IsToneMark(char) THEN <<ToneMarkOf(char)[2]>>
           ELSE <<char>>) \o plainLoop(Tail(text))

normalizePinyinPlain(value) ==
  LET marked == normalizePinyinMarks(value)
  IN IF marked = <<>> THEN <<>> ELSE collapseSpaces(Trim(plainLoop(marked)))

\* token.match(/[*?]+$/): the length of the trailing run of wildcards.
RECURSIVE wildcardSuffixLen(_)
wildcardSuffixLen(token) ==
  IF token # <<>> /\ token[Len(token)] \in {STAR, QM}
  THEN 1 + wildcardSuffixLen(SubSeq(token, 1, Len(token) - 1))
  ELSE 0

\* The loop of pinyinTokenToDigits over `core`.
RECURSIVE digitsLoop(_, _, _)
digitsLoop(core, tone, output) ==
  IF core = <<>> THEN [tone |-> tone, output |-> output]
  ELSE LET char == Head(core)
       IN IF char \in {STAR, QM}
          THEN digitsLoop(Tail(core), tone, Append(output, char))
          ELSE IF IsToneDigit(char)
          THEN digitsLoop(Tail(core), DigitValue(char), output)
          ELSE IF IsToneMark(char)
          THEN digitsLoop(Tail(core), ToneMarkOf(char)[3],
                          Append(output, ToneMarkOf(char)[2]))
          ELSE digitsLoop(Tail(core), tone, Append(output, char))

toneSuffixDropped(tone) == <<>>

\* output += String(tone) when a tone was seen.
toneSuffix(tone) == IF tone > 0 THEN <<Digits[tone + 1]>> ELSE <<>>

pinyinTokenToDigits(token) ==
  LET n == wildcardSuffixLen(token)
      suffix == SubSeq(token, Len(token) - n + 1, Len(token))
      core == SubSeq(token, 1, Len(token) - n)
      done == digitsLoop(core, 0, <<>>)
  IN IF token = <<>> THEN <<>>
     ELSE IF done.output = <<>> /\ suffix = <<>> THEN <<>>
     ELSE done.output \o toneSuffix(done.tone) \o suffix

RECURSIVE joinTokens(_)
joinTokens(tokens) ==
  IF tokens = <<>> THEN <<>>
  ELSE IF Len(tokens) = 1 THEN Head(tokens)
  ELSE Head(tokens) \o <<SP>> \o joinTokens(Tail(tokens))

normalizePinyinDigits(value) ==
  LET marked == normalizePinyinMarks(value)
      tokens == splitTokens(marked, <<>>)
  IN IF marked = <<>> THEN <<>>
     ELSE joinTokens([i \in 1 .. Len(tokens) |-> pinyinTokenToDigits(tokens[i])])

\* matchGlob: the first while loop, then the skip of trailing stars.
RECURSIVE matchGlobLoop(_, _, _, _, _, _)
matchGlobLoop(text, pattern, tIndex, pIndex, starIndex, matchIndex) ==
  IF tIndex < Len(text)
  THEN IF /\ pIndex < Len(pattern)
          /\ (pattern[pIndex + 1] = QM \/ pattern[pIndex + 1] = text[tIndex + 1])
       THEN matchGlobLoop(text, pattern, tIndex + 1, pIndex + 1, starIndex, matchIndex)
       ELSE IF pIndex < Len(pattern) /\ pattern[pIndex + 1] = STAR
       THEN matchGlobLoop(text, pattern, tIndex, pIndex + 1, pIndex, tIndex)
       ELSE IF starIndex # -1
       THEN matchGlobLoop(text, pattern, matchIndex + 1, starIndex + 1, starIndex,
                          matchIndex + 1)
       ELSE FALSE
  ELSE \A k \in (pIndex + 1) .. Len(pattern) : pattern[k] = STAR

matchGlob(text, pattern) == matchGlobLoop(text, pattern, 0, 0, -1, 0)

\* The normalizer buildSearchMatcher picked, applied to a text.
applyNormalizer(normalizer, value) ==
  IF normalizer = "digits" THEN normalizePinyinDigits(value)
  ELSE IF normalizer = "marks" THEN normalizePinyinMarks(value)
  ELSE normalizePinyinPlain(value)

Matcher(mode, glob, normalizer, term) ==
  [mode |-> mode, glob |-> glob, normalizer |-> normalizer, term |-> term]

\* buildSearchMatcher lines 385-398: the mode and the term of a query that is
\* not blank.
searchModeKeepsPrefix(trimmed) ==
  [mode |-> IF isLikelyPinyin(trimmed) THEN "pinyin" ELSE "word", term |-> trimmed]

searchMode(trimmed) ==
  LET lowered == toLowerCase(trimmed)
  IN IF startsWith(lowered, <<"p", "y", COLON>>)
     THEN [mode |-> "pinyin", term |-> Trim(SubSeq(trimmed, 4, Len(trimmed)))]
     ELSE IF startsWith(lowered, <<"w", "o", "r", "d", COLON>>)
     THEN [mode |-> "word", term |-> Trim(SubSeq(trimmed, 6, Len(trimmed)))]
     ELSE IF isLikelyPinyin(trimmed)
     THEN [mode |-> "pinyin", term |-> trimmed]
     ELSE [mode |-> "word", term |-> trimmed]

\* buildSearchMatcher: null, or the closure it returns, written as the values
\* the closure captured.
buildSearchMatcher(query) ==
  LET trimmed == Trim(normalizePattern(query))
      picked == searchMode(trimmed)
      hasWildcard == \E i \in 1 .. Len(picked.term) : picked.term[i] \in {STAR, QM}
      normalizer == detectPinyinMode(picked.term)
      normalizedQuery == applyNormalizer(normalizer, picked.term)
  IN IF trimmed = <<>> THEN NullMatcher
     ELSE IF picked.term = <<>> THEN NullMatcher
     ELSE IF picked.mode = "word"
     THEN Matcher("word", hasWildcard, "none", toLowerCase(picked.term))
     ELSE IF normalizedQuery = <<>> THEN NullMatcher
     ELSE Matcher("pinyin", hasWildcard, normalizer, normalizedQuery)

\* The closure applied to an entry.
matcherAccepts(matcher, entry) ==
  LET text == IF matcher.mode = "word" THEN toLowerCase(entry.word)
              ELSE applyNormalizer(matcher.normalizer, entry.pinyin)
  IN IF matcher.glob THEN matchGlob(text, matcher.term)
     ELSE includes(text, matcher.term)

matchesSearch(matcher, entry) ==
  IF matcher = NullMatcher THEN TRUE ELSE matcherAccepts(matcher, entry)

\* applyFilters with the length filter at "all": dataState.filteredEntries
\* (CONFIG.proofreadOnly is true).
applyFilters(entries, matcher) ==
  SelectSeq(entries, LAMBDA entry : matchesSearch(matcher, entry) /\ entry.proofread)

\* ------------------------------------------------ the published list text
\* The fetched text, line by line.  A line is the stats line ("# mcc-stats:"
\* and a payload), another comment line, or a CSV row with its word and pinyin
\* cells.  A payload is no JSON, or an object with or without
\* rows.ranges_by_pass.
NullStats == [json |-> "null", hasRanges |-> FALSE, ranges_by_pass |-> <<>>]
MalformedJson == [json |-> "malformed", hasRanges |-> FALSE, ranges_by_pass |-> <<>>]
StatsObject(hasRanges, ranges) ==
  [json |-> "object", hasRanges |-> hasRanges, ranges_by_pass |-> ranges]

StatsLine(payload) ==
  [kind |-> "stats", payload |-> payload, word |-> <<>>, pinyin |-> <<>>]
CommentLine ==
  [kind |-> "comment", payload |-> NullStats, word |-> <<>>, pinyin |-> <<>>]
RowLine(word, pinyin) ==
  [kind |-> "row", payload |-> NullStats, word |-> word, pinyin |-> pinyin]

\* try { stats = JSON.parse(payload) } catch { stats = null }
parseStats(payload) == IF payload.json = "malformed" THEN NullStats ELSE payload

RECURSIVE stripLoop(_, _, _)
stripLoop(lines, stats, filtered) ==
  IF lines = <<>> THEN [stats |-> stats, rows |-> filtered]
  ELSE LET line == Head(lines)
       IN IF stats = NullStats /\ line.kind = "stats"
          THEN stripLoop(Tail(lines), parseStats(line.payload), filtered)
          ELSE IF line.kind \in {"stats", "comment"}
          THEN stripLoop(Tail(lines), stats, filtered)
          ELSE stripLoop(Tail(lines), stats, Append(filtered, line))

\* stripStatsHeader followed by parseCsv: the stats and the rows.
stripStatsHeader(lines) == stripLoop(lines, NullStats, <<>>)

\* collectProofreadRanges line 605: stats.rows.ranges_by_pass, if there.
statsRangesByPass(stats) ==
  IF stats.json = "object" /\ stats.hasRanges THEN stats.ranges_by_pass ELSE <<>>

Entry(row, word, pinyin, isProofread) ==
  [row |-> row, word |-> word, pinyin |-> pinyin, proofread |-> isProofread]

tagAlwaysTrue(ranges, cursor, i) == TRUE

\* loadWords line 877: isProofreadRow ? isProofreadRow(rowIndex) : true.
tagOf(ranges, cursor, i) ==
  IF ranges = NullRanges THEN TRUE ELSE checkerResult(ranges, cursor, i)

\* loadWords' row loop from row i on; acc holds the entries so far and the
\* state of the isProofreadRow closure.
RECURSIVE rowLoop(_, _, _, _)
rowLoop(csvRows, i, ranges, acc) ==
  IF i >= Len(csvRows) THEN acc
  ELSE LET word == Trim(csvRows[i + 1].word)
           cursor == IF ranges = NullRanges THEN acc.rangeIndex
                     ELSE checkerAdvance(ranges, acc.rangeIndex, i)
           tag == tagOf(ranges, cursor, i)
       IN IF word = <<>> THEN rowLoop(csvRows, i + 1, ranges, acc)
          ELSE rowLoop(csvRows, i + 1, ranges,
                 [entries |-> Append(acc.entries,
                                     Entry(i, word, csvRows[i + 1].pinyin, tag)),
                  rangeIndex |-> cursor,
                  rowIndex |-> IF ranges = NullRanges THEN acc.rowIndex ELSE i,
                  proofread |-> IF ranges = NullRanges THEN acc.proofread ELSE tag])

\* init from the moment the list text has arrived: loadWords, then
\* dataState.allEntries = entries and applyFilters (lines 846-921).
ListArrives ==
  /\ viewerPc = "text"
  /\ LET stripped == stripStatsHeader(published)
         ranges == collectProofreadRanges(statsRangesByPass(stripped.stats))
         done == rowLoop(stripped.rows, 1, ranges,
                         [entries |-> <<>>, rangeIndex |-> 0, rowIndex |-> 0,
                          proofread |-> FALSE])
     IN IF stripped.rows = <<>>
        THEN /\ viewerPc' = "failed"
             /\ UNCHANGED <<rangesByPass, proofreadRanges, rangeIndex, rowIndex,
                            proofread, wordRows, allEntries, filteredEntries>>
        ELSE /\ viewerPc' = "done"
             /\ rangesByPass' = statsRangesByPass(stripped.stats)
             /\ proofreadRanges' = ranges
             /\ rangeIndex' = done.rangeIndex
             /\ rowIndex' = done.rowIndex
             /\ proofread' = done.proofread
             /\ wordRows' = stripped.rows
             /\ allEntries' = done.entries
             /\ filteredEntries' = applyFilters(done.entries, searchMatcher)
  /\ UNCHANGED <<editorVars, published, searchInput, searchQuery, searchTimer,
                 searchMatcher, timers, nextTimer, clock, lastInputAt, filterRuns,
                 bursts>>

\* The list texts of the runs: no stats line, one, or a malformed one followed
\* by another; the header row; up to MaxRow data rows, some with a blank word.
PublishedEntries ==
  { PairEntry(1, 1), PairEntry(2, 3), PairEntry(3, Infinity), NumberEntry(2),
    NumberEntry(Infinity), OtherEntry }

PublishedRanges ==
  [1 .. NPasses -> {<<>>} \cup {<<entry>> : entry \in PublishedEntries}]

StatsPayloads ==
  {MalformedJson, StatsObject(FALSE, <<>>)}
    \cup {StatsObject(TRUE, ranges) : ranges \in PublishedRanges}

StatsParts ==
  {<<>>} \cup {<<StatsLine(payload)>> : payload \in StatsPayloads}
    \cup {<<StatsLine(MalformedJson), CommentLine, StatsLine(payload)>> :
            payload \in StatsPayloads}

WordCells == { <<>>, <<SP>>, <<"<ma>">> }

DataRows ==
  UNION {[1 .. k -> {RowLine(word, <<>>) : word \in WordCells}] : k \in 0 .. MaxRow}

HeaderRow == RowLine(<<"w", "o", "r", "d">>, <<"p", "i", "n", "y", "i", "n">>)

PublishedTexts ==
  {part \o <<HeaderRow>> \o data : part \in StatsParts, data \in DataRows}
    \cup StatsParts

PublishedInit ==
  /\ EditorOff
  /\ viewerPc = "text"
  /\ rangesByPass = <<>>
  /\ proofreadRanges = NullRanges
  /\ rangeIndex = 0
  /\ rowIndex = 0
  /\ proofread = FALSE
  /\ published \in PublishedTexts
  /\ wordRows = <<>>
  /\ allEntries = <<>>
  /\ SearchOff

PublishedNext == ListArrives

PublishedSpec == PublishedInit /\ [][PublishedNext]_vars

\* The ranges_by_pass of the first stats line of the text whose payload is
\* well-formed JSON; none when there is no such line or it has no ranges.
PublishedRangesByPass ==
  LET parsed == {i \in 1 .. Len(published) :
                   published[i].kind = "stats" /\ published[i].payload.json = "object"}
  IN IF parsed = {} THEN <<>>
     ELSE statsRangesByPass(published[CHOOSE i \in parsed : \A j \in parsed : i <= j].payload)

\* An entry of a ranges list that gives a range: a pair, or a finite number.
GivesRange(entry) ==
  entry.kind = "pair" \/ (entry.kind = "number" /\ entry.a # Infinity)

NoUsableRangeData ==
  \A passKey \in DOMAIN PublishedRangesByPass :
    \A k \in 1 .. Len(PublishedRangesByPass[passKey]) :
      ~GivesRange(PublishedRangesByPass[passKey][k])

\* The data rows of the text: its CSV rows after the header row.
PublishedDataRows == Tail(SelectSeq(published, LAMBDA line : line.kind = "row"))

\* C29: once the list is loaded there is one entry for each data row with a
\* word; every entry is tagged proofread when the text has no stats line, a
\* stats line that is no JSON, or a ranges_by_pass without ranges; otherwise
\* an entry is tagged proofread exactly when its 1-based data-row index lies in
\* a merged range.
C29_TaggedByMergedRanges ==
  viewerPc = "done" =>
    /\ {allEntries[k].row : k \in 1 .. Len(allEntries)}
         = {i \in 1 .. Len(PublishedDataRows) : Trim(PublishedDataRows[i].word) # <<>>}
    /\ \A k \in 1 .. Len(allEntries) :
         allEntries[k].proofread <=>
           (NoUsableRangeData \/ InRanges(proofreadRanges, allEntries[k].row))

\* Rows 1 and 3 carry a word, row 2 is blank; only row 1 lies in a range.
C29_Witness ==
  /\ viewerPc = "done"
  /\ proofreadRanges = << <<1, 1>> >>
  /\ Len(allEntries) = 2
  /\ allEntries[1].row = 1 /\ allEntries[1].proofread
  /\ allEntries[2].row = 3 /\ ~allEntries[2].proofread

\* An entry that contains a non-finite number.
Malformed(entry) ==
  entry.kind \in {"pair", "number"} /\ (entry.a = Infinity \/ entry.b = Infinity)

WithoutMalformed(ranges) ==
  [passKey \in DOMAIN ranges |->
     SelectSeq(ranges[passKey], LAMBDA entry : ~Malformed(entry))]

\* C30: the merged ranges of a list are those of the list without its entries
\* that contain a non-finite number, singletons and pairs alike.
C30_MalformedEntryDropped ==
  viewerPc = "done" =>
    proofreadRanges = collectProofreadRanges(WithoutMalformed(rangesByPass))

\* ------------------------------------------------------- search as typed
\* The delay of scheduleFilterUpdate, 120 ms, in clock units of 40 ms.
FilterDelay == 3

\* The number of query changes in a run.
MaxTyped == 3

Timer(id, due) == [id |-> id, due |-> due]

clearTimeoutForgotten(pending, handle) == pending

\* window.clearTimeout(handle)
clearTimeout(pending, handle) == {timer \in pending : timer.id # handle}

\* scheduleFilterUpdate (lines 199-208) up to the callback.
scheduleFilterUpdate ==
  /\ timers' = (IF searchTimer # 0 THEN clearTimeout(timers, searchTimer) ELSE timers)
                 \cup {Timer(nextTimer, clock + FilterDelay)}
  /\ searchTimer' = nextTimer
  /\ nextTimer' = nextTimer + 1

\* The search input's "input" event (lines 492-499).
TypeQuery(value) ==
  /\ viewerPc \in {"text", "done", "failed"}
  /\ nextTimer <= MaxTyped
  /\ searchInput # value
  /\ searchInput' = value
  /\ LET next == normalizeQuery(value)
     IN IF next = searchQuery
        THEN UNCHANGED <<searchQuery, searchTimer, timers, nextTimer, lastInputAt,
                         bursts>>
        ELSE /\ searchQuery' = next
             /\ scheduleFilterUpdate
             /\ lastInputAt' = clock
             /\ bursts' = IF timers = {} THEN bursts + 1 ELSE bursts
  /\ UNCHANGED <<editorVars, viewerPc, rangesByPass, proofreadRanges, rangeIndex,
                 rowIndex, proofread, listVars, searchMatcher, clock,
                 filteredEntries, filterRuns>>

\* The browser takes a timer that is due off its list to run its callback.
TimerRuns ==
  \E timer \in timers :
    /\ timer.due <= clock
    /\ timers' = timers \ {timer}

\* The callback of the timer (lines 203-207), run by the browser once the
\* delay has passed.
FilterTimerFires ==
  /\ TimerRuns
  /\ searchTimer' = 0
  /\ LET matcher == buildSearchMatcher(searchQuery)
     IN /\ searchMatcher' = matcher
        /\ filteredEntries' = applyFilters(allEntries, matcher)
  /\ filterRuns' = filterRuns + 1
  /\ UNCHANGED <<editorVars, viewerPc, rangesByPass, proofreadRanges, rangeIndex,
                 rowIndex, proofread, listVars, searchInput, searchQuery,
                 nextTimer, clock, lastInputAt, bursts>>

\* 40 ms pass while a timer is pending and none is due.
ViewerTick ==
  /\ timers # {}
  /\ \A timer \in timers : timer.due > clock
  /\ clock' = clock + 1
  /\ UNCHANGED <<editorVars, viewerPc, rangesByPass, proofreadRanges, rangeIndex,
                 rowIndex, proofread, listVars, searchInput, searchQuery,
                 searchTimer, searchMatcher, timers, nextTimer, filteredEntries,
                 lastInputAt, filterRuns, bursts>>

\* ------------------------------------------------ the runs of the matcher
\* The longest query typed, in code points (a prefix not counted).
MaxQueryLen == 3

Seqs(alphabet, n) == UNION {[1 .. k -> alphabet] : k \in 0 .. n}

\* One code point of each class the classification tells apart.
ClassAlphabet == {"m", "a", "a1", "1", "6", STAR, QM, APOS, SP, "<ma>", "-"}
GlobAlphabet == {STAR, QM, "<hua>", "<er>", "<ma>"}

PyPrefix == <<"p", "y", COLON>>
WordPrefix == <<"w", "o", "r", "d", COLON>>

\* The syllables of the list: base letters and the letter that carries the
\* tone mark.
Syllables ==
  { [base |-> <<"m", "a">>, at |-> 2],
    [base |-> <<"l", "u:">>, at |-> 2],
    [base |-> <<"h", "a", "o">>, at |-> 2] }

MarkFor(letter, tone) == (CHOOSE m \in TONE_MARKS : m[2] = letter /\ m[3] = tone)[1]

\* The syllable written with the diacritic of the tone.
WithMark(syllable, tone) ==
  [syllable.base EXCEPT ![syllable.at] = MarkFor(syllable.base[syllable.at], tone)]

\* The syllable followed by the digit of the tone.
WithDigit(syllable, tone) == Append(syllable.base, Digits[tone + 1])

ToneQueries ==
  {WithDigit(syllable, tone) : syllable \in Syllables, tone \in 1 .. 4}
    \cup {<<"l", "v", "4">>, <<"P", "Y", COLON, "1">>}

\* Toneless queries: the "v" spelling, two syllables, a prefixed syllable.
PlainQueries ==
  { <<"l", "v">>, <<"a", SP, "h">>, PyPrefix \o <<"h", "a", "o">> }

QueryTexts ==
  Seqs(ClassAlphabet, MaxQueryLen)
    \cup PlainQueries
    \cup {prefix \o text : prefix \in {PyPrefix, WordPrefix},
                           text \in Seqs(ClassAlphabet, MaxQueryLen - 1)}
    \cup {prefix \o text : prefix \in {<<>>, WordPrefix},
                           text \in Seqs(GlobAlphabet, MaxQueryLen)}
    \cup ToneQueries

\* The rows of the published list of these runs: word, pinyin.
SearchRows ==
  << << <<"<hua>">>, <<>> >>,
     << <<"<er>">>, <<>> >>,
     << <<"<hua>", "<er>">>, <<>> >>,
     << <<"<er>", "<tong>">>, <<>> >>,
     << <<"<er>", "<hua>">>, <<>> >>,
     << <<"<hua>", "<hua>">>, <<>> >>,
     << <<"<hua>", "<er>", "<hua>">>, <<>> >>,
     << <<"<er>", "<hua>", "<er>">>, <<>> >>,
     << <<STAR, "<hua>">>, <<>> >>,
     << <<"<ma>">>, <<"m", "a3">> >>,
     << <<"<ma>", "<hua>">>, <<>> >>,
     << <<"<hua>", "<ma>">>, <<>> >>,
     << <<"<ma>", STAR, "<hua>">>, <<>> >>,
     << <<"m", "a">>, <<>> >>,
     << <<"m", "?">>, <<>> >>,
     << <<"<tong>">>, <<"m", "a">> >>,
     << <<"<tong>">>, <<"m", "a1">> >>,
     << <<"<tong>">>, <<"m", "a2">> >>,
     << <<"<tong>">>, <<"m", "a4">> >>,
     << <<"<tong>">>, <<"l", "u:1">> >>,
     << <<"<tong>">>, <<"l", "u:2">> >>,
     << <<"<tong>">>, <<"l", "u:3">> >>,
     << <<"<tong>">>, <<"l", "u:4">> >>,
     << <<"<tong>">>, <<"h", "a1", "o">> >>,
     << <<"<tong>">>, <<"h", "a2", "o">> >>,
     << <<"<tong>">>, <<"h", "a3", "o">> >>,
     << <<"<tong>">>, <<"h", "a4", "o">> >>,
     << <<"<tong>">>, <<"m", "a", "3">> >>,
     << <<"<tong>">>, <<"M", "a1", SP, SP, "h", "a3", "o">> >>,
     << <<"<tong>">>, <<"m", "a", "1", SP, "h", "a", "o", "3">> >>,
     << <<"<tong>">>, <<"l", "v", "4">> >> >>

SearchListText ==
  <<HeaderRow>> \o [i \in 1 .. Len(SearchRows) |->
                      RowLine(SearchRows[i][1], SearchRows[i][2])]

\* The entries loadWords makes of these rows: the list carries no stats line,
\* so every row is tagged proofread.
SearchEntries ==
  [i \in 1 .. Len(SearchRows) |-> Entry(i, SearchRows[i][1], SearchRows[i][2], TRUE)]

\* The viewer with this list loaded, the search box empty.
MatcherInit ==
  /\ EditorOff
  /\ viewerPc = "done"
  /\ rangesByPass = <<>>
  /\ proofreadRanges = NullRanges
  /\ rangeIndex = 0
  /\ rowIndex = 0
  /\ proofread = FALSE
  /\ published = SearchListText
  /\ wordRows = SearchListText
  /\ allEntries = SearchEntries
  /\ searchInput = <<>>
  /\ searchQuery = <<>>
  /\ searchTimer = 0
  /\ searchMatcher = NullMatcher
  /\ timers = {}
  /\ nextTimer = 1
  /\ clock = 0
  /\ filteredEntries = SearchEntries
  /\ lastInputAt = 0
  /\ filterRuns = 0
  /\ bursts = 0

\* One query is typed or pasted into the empty box.
MatcherNext ==
  \/ \E value \in QueryTexts : searchInput = <<>> /\ TypeQuery(value)
  \/ ViewerTick
  \/ FilterTimerFires

MatcherSpec == MatcherInit /\ [][MatcherNext]_vars

\* The re-filter of the typed query has run.
Filtered == filterRuns > 0 /\ searchTimer = 0

Shown(entry) == \E k \in 1 .. Len(filteredEntries) : filteredEntries[k] = entry

Listed == {allEntries[k] : k \in 1 .. Len(allEntries)}

\* Reference glob semantics: '*' any run, '?' one character, any other
\* character itself, the whole text consumed by the whole pattern.
RECURSIVE GlobReference(_, _)
GlobReference(text, pattern) ==
  IF pattern = <<>> THEN text = <<>>
  ELSE IF Head(pattern) = STAR
  THEN \/ GlobReference(text, Tail(pattern))
       \/ text # <<>> /\ GlobReference(Tail(text), pattern)
  ELSE /\ text # <<>>
       /\ Head(pattern) = QM \/ Head(pattern) = Head(text)
       /\ GlobReference(Tail(text), Tail(pattern))

\* The typed query is a 'word:' query with a wildcard; its pattern.
IsWordGlobQuery ==
  /\ startsWith(searchQuery, WordPrefix)
  /\ \E i \in 6 .. Len(searchQuery) : searchQuery[i] \in {STAR, QM}
  /\ Trim(SubSeq(searchQuery, 6, Len(searchQuery))) = SubSeq(searchQuery, 6, Len(searchQuery))

TypedPattern == SubSeq(searchQuery, 6, Len(searchQuery))

\* C22: glob matching is anchored at both ends and equals reference glob
\* semantics for every text and pattern: the entries a 'word:' query with
\* wildcards shows are exactly those whose word the pattern matches under the
\* reference semantics, matchGlob agrees with the reference on every word of
\* the list, and "*<er>" matches "<hua><er>" but not "<er><tong>".
C22_GlobIsReference ==
  /\ matchGlob(<<"<hua>", "<er>">>, <<STAR, "<er>">>)
  /\ ~matchGlob(<<"<er>", "<tong>">>, <<STAR, "<er>">>)
  /\ (Filtered /\ IsWordGlobQuery) =>
       \A entry \in Listed :
         /\ matchGlob(toLowerCase(entry.word), TypedPattern)
              = GlobReference(toLowerCase(entry.word), TypedPattern)
         /\ Shown(entry) = GlobReference(toLowerCase(entry.word), TypedPattern)

\* The entries of the list whose pinyin is the syllable written with the mark
\* of the tone.
WrittenWithMark(syllable, tone) ==
  {entry \in Listed : entry.pinyin = WithMark(syllable, tone)}

\* C23: a digit-tone romanization query matches the entries whose pinyin is
\* written with the equivalent tone mark: once the list is filtered by the
\* query of a syllable's base letters followed by the digit of a tone in 1..4,
\* an entry whose pinyin is that syllable with a tone mark is shown exactly
\* when the mark is the mark of that tone.
C23_DigitToneMatchesMark ==
  Filtered =>
    \A syllable \in Syllables : \A tone \in 1 .. 4 :
      searchQuery = WithDigit(syllable, tone) =>
        \A written \in 1 .. 4 : \A entry \in WrittenWithMark(syllable, written) :
          Shown(entry) = (written = tone)

\* The list filtered by "ma1" shows the entry written "ma" with the first-tone
\* mark and leaves out the one written with the second-tone mark.
C23_Witness ==
  /\ Filtered
  /\ searchQuery = <<"m", "a", "1">>
  /\ \E entry \in Listed : entry.pinyin = <<"m", "a1">> /\ Shown(entry)
  /\ \E entry \in Listed : entry.pinyin = <<"m", "a2">> /\ ~Shown(entry)

\* The romanization test as the classification rule words it: no ideograph,
\* only letters, apostrophe, tone marks, tone digits and wildcards, and a tone
\* digit or a vowel.
RomanizationByRule(text) ==
  /\ ~HasChar(text, IsCjk)
  /\ \A i \in 1 .. Len(text) :
       \/ IsLatinLetter(text[i]) \/ text[i] = "u:"
       \/ text[i] = APOS
       \/ IsToneMark(text[i])
       \/ IsToneDigit(text[i])
       \/ text[i] \in {STAR, QM}
  /\ HasChar(text, IsToneDigit) \/ HasChar(text, IsPinyinVowel)

ModeByRule(text) ==
  IF startsWith(text, PyPrefix) THEN "pinyin"
  ELSE IF startsWith(text, WordPrefix) THEN "word"
  ELSE IF RomanizationByRule(text) THEN "pinyin"
  ELSE "word"

\* C24: the query is classified by this priority: a 'py:' prefix forces
\* romanization mode, otherwise a 'word:' prefix forces literal mode,
\* otherwise the query is a romanization query exactly when the rule's test
\* holds; "m?" is literal, and "word:<ma>*" shows exactly the words that start
\* with "<ma>".
C24_ClassifiedByPriority ==
  /\ (Filtered /\ searchMatcher # NullMatcher) =>
       searchMatcher.mode = ModeByRule(searchQuery)
  /\ (Filtered /\ searchQuery = <<"m", QM>>) => searchMatcher.mode = "word"
  /\ (Filtered /\ searchQuery = WordPrefix \o <<"<ma>", STAR>>) =>
       \A entry \in Listed : Shown(entry) = startsWith(entry.word, <<"<ma>">>)

\* The text is a run of tone digits, which the digit form drops.
OnlyToneDigits(text) ==
  text # <<>> /\ \A i \in 1 .. Len(text) : IsToneDigit(text[i])

\* The query is empty after normalization: blank, only a prefix, or a
\* romanization query of which normalization leaves nothing.
EmptyAfterNormalization(query) ==
  LET trimmed == Trim(normalizePattern(query))
      lowered == toLowerCase(trimmed)
  IN \/ trimmed = <<>>
     \/ lowered \in {PyPrefix, WordPrefix}
     \/ OnlyToneDigits(trimmed)
     \/ /\ startsWith(lowered, PyPrefix)
        /\ OnlyToneDigits(Trim(SubSeq(trimmed, 4, Len(trimmed))))

\* C25: buildSearchMatcher returns null exactly when the query is empty
\* after normalization (blank, only a 'py:' or 'word:' prefix, or a
\* romanization query whose normalized form is empty) and a matcher for every
\* other query; with the null matcher the re-filter shows every entry.
C25_NullExactlyWhenEmpty ==
  /\ (buildSearchMatcher(searchQuery) = NullMatcher)
       = EmptyAfterNormalization(searchQuery)
  /\ Filtered =>
       /\ searchMatcher = buildSearchMatcher(searchQuery)
       /\ searchMatcher = NullMatcher => filteredEntries = allEntries

\* The query "py:1" was typed and the re-filter ran with the null matcher.
C25_Witness ==
  /\ Filtered
  /\ searchQuery = PyPrefix \o <<"1">>
  /\ searchMatcher = NullMatcher
  /\ filteredEntries = allEntries

\* ---------------------------------------------------- the runs of typing
\* The texts the search box goes through while the user types.
DebounceTexts ==
  { <<>>, <<"m">>, <<SP, "m">>, <<"m", "a">>, <<"m", "a", "1">>, <<"<ma>">> }

DebounceListText ==
  << HeaderRow,
     RowLine(<<"<ma>">>, <<"m", "a3">>),
     RowLine(<<"<tong>">>, <<"m", "a1">>),
     RowLine(<<"<hua>">>, <<>>) >>

\* The viewer as init leaves it when the list text is fetched.
DebounceInit ==
  /\ EditorOff
  /\ viewerPc = "text"
  /\ rangesByPass = <<>>
  /\ proofreadRanges = NullRanges
  /\ rangeIndex = 0
  /\ rowIndex = 0
  /\ proofread = FALSE
  /\ published = DebounceListText
  /\ wordRows = <<>>
  /\ allEntries = <<>>
  /\ SearchOff

DebounceNext ==
  \/ ListArrives
  \/ \E value \in DebounceTexts : TypeQuery(value)
  \/ ViewerTick
  \/ FilterTimerFires

\* Time passes, and the browser runs a timer that is due.
DebounceSpec ==
  DebounceInit /\ [][DebounceNext]_vars
    /\ WF_vars(ViewerTick) /\ WF_timers(TimerRuns)

\* The list shown is the list filtered by the query as it stands.
ReflectsQuery ==
  filteredEntries = applyFilters(allEntries, buildSearchMatcher(searchQuery))

\* C21: search re-evaluation is debounced. At any time at most one filter
\* timer is pending, the one searchState.timer names, and every burst of
\* query changes has had its one re-filter or has its timer pending; each
\* changed query leaves the timer it starts as the only pending one; a
\* re-filter runs no sooner than the delay after the last change and uses the
\* matcher of the query as it stands; once input stops the list shown
\* eventually reflects the latest query, for good.
C21_Debounced ==
  /\ [](/\ Cardinality(timers) <= 1
        /\ (searchTimer # 0) = (timers # {})
        /\ \A timer \in timers : timer.id = searchTimer
        /\ bursts = filterRuns + Cardinality(timers))
  /\ [][/\ searchQuery' # searchQuery =>
             timers' = {Timer(nextTimer, clock + FilterDelay)}
        /\ filterRuns' # filterRuns =>
             /\ filterRuns' = filterRuns + 1
             /\ clock >= lastInputAt + FilterDelay
             /\ timers' = {}
             /\ searchMatcher' = buildSearchMatcher(searchQuery)
             /\ filteredEntries' = applyFilters(allEntries, searchMatcher')]_vars
  /\ <>[]ReflectsQuery

\* Two query changes inside the idle window were followed by one re-filter,
\* which used the second query.
C21_Witness ==
  /\ viewerPc = "done"
  /\ nextTimer = 3
  /\ bursts = 1
  /\ filterRuns = 1
  /\ timers = {}
  /\ searchQuery = <<"m", "a">>
  /\ searchMatcher = buildSearchMatcher(<<"m", "a">>)
  /\ Len(filteredEntries) = 2

\* ------------------------------------------------- timestamps of a save
\* Slot t takes the step in which its metadata write succeeds.
MetadataWritten(t) == tasks[t].pc = "meta_write" /\ tasks'[t].pc = "readme"

WrittenRecord(t) == JsonParse(storedMeta'[tasks[t].item].text)

\* C26: when a save detects a document change, the metadata it builds, and
\* then writes, has completedAt set to the time of the save and, when the
\* metadata record carries no startedAt yet, startedAt set to the session's
\* load time.
C26_ChangeStampsTimes ==
  [][ \A t \in Slots :
        /\ (SaveStarts(t) /\ tasks'[t].csvChanged) =>
             /\ tasks'[t].metadata.proofread_completed_at = now
             /\ meta.proofread_started_at = 0 =>
                  /\ sessionStartedAt # 0
                  /\ tasks'[t].metadata.proofread_started_at = sessionStartedAt
        /\ MetadataWritten(t) =>
             /\ storedMeta'[tasks[t].item].file = "json"
             /\ WrittenRecord(t).proofread_started_at
                  = tasks[t].metadata.proofread_started_at
             /\ WrittenRecord(t).proofread_completed_at
                  = tasks[t].metadata.proofread_completed_at
    ]_vars

\* C27: when only metadata changed, the save persists the metadata record
\* only - its first write is the metadata write, no document write is ever
\* issued for it and the stored document stays as it is - and the startedAt
\* and completedAt it builds and writes are those of the existing metadata
\* record.
C27_MetadataOnlySave ==
  [][ \A t \in Slots :
        /\ (SaveStarts(t) /\ ~saveCsvChanged) =>
             /\ tasks'[t].pc = "meta_write"
             /\ ~tasks'[t].csvChanged
             /\ tasks'[t].metadata.proofread_started_at = meta.proofread_started_at
             /\ tasks'[t].metadata.proofread_completed_at
                  = meta.proofread_completed_at
        /\ (MetadataWritten(t) /\ ~tasks[t].csvChanged) =>
             /\ UNCHANGED storedCsv
             /\ WrittenRecord(t).proofread_started_at
                  = tasks[t].metadata.proofread_started_at
             /\ WrittenRecord(t).proofread_completed_at
                  = tasks[t].metadata.proofread_completed_at
        /\ (tasks'[t].pc = "csv_write") => tasks'[t].csvChanged
    ]_vars

\* C27 witness: a metadata-only save (the notes were typed, no cell was) has
\* written a record that carries the timestamps of the record loaded, which
\* are neither the session's load time nor the time of the save.
C27_Witness ==
  \E i \in Items :
    /\ AllIdle
    /\ currentIndex = i
    /\ status = Status("Saved", i, FALSE)
    /\ storedMeta[i].file = "json"
    /\ JsonParse(storedMeta[i].text).notes = "n"
    /\ JsonParse(storedMeta[i].text).proofread_started_at = 1
    /\ JsonParse(storedMeta[i].text).proofread_completed_at = 1
    /\ sessionStartedAt > 1
    /\ now > 1
    /\ storedCsv[i] = originalCsvSerialized

\* --------------------------------------------- load without usable metadata
\* Slot t takes the step in which readMetadata returns to its loadItem.
MetadataRead(t) == tasks[t].pc = "meta_read" /\ tasks'[t].pc # "meta_read"

Unusable == {"absent", "garbage"}

\* C28: load treats a missing metadata file and one that is not valid JSON
\* the same way, as an empty record: the load completes with the status
\* "Loaded", the session's and the fragment's record are the empty record, the
\* recorded previous pass is absent and the pass input is empty.
C28_UnusableMetadataIsEmpty ==
  [][ \A t \in Slots :
        (MetadataRead(t) /\ storedMeta[tasks[t].index].file \in Unusable) =>
          /\ tasks'[t] = IdleTask
          /\ status' = Status("Loaded", tasks[t].index, FALSE)
          /\ meta' = EmptyMeta
          /\ itemMeta'[tasks[t].index] = EmptyMeta
          /\ originalPass' = 0
          /\ metaLevel' = ""
    ]_vars

\* C28 witness: the fragment whose metadata file is no JSON is loaded, with
\* the empty record, no previous pass and an empty pass input.
C28_Witness ==
  /\ AllIdle
  /\ currentIndex >= 0
  /\ status = Status("Loaded", currentIndex, FALSE)
  /\ storedMeta[currentIndex].file = "garbage"
  /\ meta = EmptyMeta
  /\ originalPass = 0
  /\ metaLevel = ""
  /\ events = 0

\* ------------------------------------------------ ranges of shift and offset
\* The 0-based rows whose index-column value, trimmed, is the decimal text of
\* the integer a boundary text stands for.
RowsLabelled(text) ==
  LET indexCol == findColumnIndexByName(columnNames, "index")
      label == StringOf(parseIntegerInput(text)[1])
  IN {r \in 0 .. Len(tableData) - 1 : Trim(CellOr(tableData[r + 1], indexCol)) = label}

\* C31: in the index-value range mode the lower boundary is the first row whose
\* index value equals the start label and the upper boundary the last row
\* whose index value equals the end label (a boundary left empty is the first
\* or the last row); the two are swapped when the lower lies after the upper;
\* when a given label is in no row the request ends with an error status and
\* changes no cell.
C31_IndexRangeBoundaries ==
  AllIdle =>
    \A start \in BoundaryTexts, end \in BoundaryTexts, mode \in ShiftModes :
      (start # <<>> \/ end # <<>>) =>
        LET done == applyShift(<<"1">>, start, end, "index", mode)
            lower == IF start = <<>> THEN {0} ELSE RowsLabelled(start)
            upper == IF end = <<>> THEN {Len(tableData) - 1} ELSE RowsLabelled(end)
        IN IF lower = {} \/ upper = {} THEN Rejects(done)
           ELSE LET first == MinOf(lower)
                    last == MaxOf(upper)
                IN done.range = IF first > last THEN <<last, first>>
                                ELSE <<first, last>>

\* Apply was pressed in offset mode for index values 2..2 on the list 1, 2, 2:
\* both rows that carry 2 were offset.
C31_Witness ==
  /\ AllIdle
  /\ status = Status("Offset index", 2, FALSE)
  /\ Len(tableData) = 3
  /\ tableData[1][1] = <<"1">>
  /\ tableData[2][1] = <<"3">>
  /\ tableData[3][1] = <<"3">>

\* ------------------------------------------------------ shift request runs
\* Runs of the shift panel alone: fragment 0 holds a numbered list with a
\* repeated label or a list of numbers and text; its record is absent or
\* names columns none of which is called "index".
ShiftCsvTexts ==
  { serializeCsv(<< << <<"1">>, <<"a">> >>, << <<"2">>, <<>> >>,
                    << <<"2">>, <<"b">> >> >>),
    <<"1", "0", ",", "a", LF, "a", "b", "c", LF, SP, "-", "3", ",", "b">> }

UnindexedMeta ==
  MetaRecord("obj", 0, 1, PassLabel(1), "ann", 1, 1, "", <<"no", "word">>)

ShiftMetaFiles == { AbsentFile, JsonFile(JsonStringify(UnindexedMeta)) }

\* The boundary texts of a request: missing, below the first row, in the
\* table, past the last row.
RangeTexts == { <<>>, <<"-", "1">>, <<"2">>, <<"7">> }

ShiftPanelBy == { <<"1">>, <<"-", "1">> }

ShiftInit ==
  /\ ViewerOff
  /\ storedCsv \in { [i \in Items |-> IF i = 0 THEN text ELSE <<"b", ",", "b">>] :
                       text \in ShiftCsvTexts }
  /\ storedMeta \in { [i \in Items |->
                         IF i = 0 THEN file
                         ELSE JsonFile(JsonStringify(WrittenMeta(i)))] :
                        file \in ShiftMetaFiles }
  /\ localStorageBy = ""
  /\ itemCount = 0
  /\ itemMeta = [i \in Items |-> NullMeta]
  /\ currentIndex = -1
  /\ tableData = <<>>
  /\ columnNames = <<>>
  /\ selectedRow = -1
  /\ selectedCol = -1
  /\ meta = NullMeta
  /\ originalCsvSerialized = <<>>
  /\ originalMetaSerialized = <<>>
  /\ originalPass = 0
  /\ sessionStartedAt = 0
  /\ metaLevel = ""
  /\ metaBy = ""
  /\ metaNotes = ""
  /\ status = Status("", -1, FALSE)
  /\ tasks = [t \in Slots |-> IF t = 1 THEN InitTask ELSE IdleTask]
  /\ now = 2
  /\ events = 0
  /\ edited = FALSE
  /\ hist = NoSaves
  /\ origin = [doc |-> -1, baseline |-> -1]

ShiftNext ==
  \/ \E t \in Slots : RefreshItems(t)
  \/ \E t \in Slots : ReadCsvOk(t)
  \/ \E t \in Slots : ReadMetaDone(t)
  \/ \E row \in ClickedRows, col \in ClickedCols : FocusCell(row, col)
  \/ \E row \in ClickedRows : ClickRowHeader(row)
  \/ \E shiftBy \in ShiftPanelBy, shiftStart \in RangeTexts,
        shiftEnd \in RangeTexts, shiftRange \in ShiftRanges,
        shiftMode \in ShiftModes :
       ApplyShift(shiftBy, shiftStart, shiftEnd, shiftRange, shiftMode)

ShiftSpec == ShiftInit /\ [][ShiftNext]_vars

\* C38: every accepted shift or offset request, in row mode and in index-value
\* mode, with boundaries given, missing, reversed or out of range, resolves to
\* rows with 0 <= startRow <= endRow < rowCount.
C38_RangeInsideDocument ==
  AllIdle =>
    \A by \in ShiftPanelBy, start \in RangeTexts, end \in RangeTexts,
       range \in ShiftRanges, mode \in ShiftModes :
      LET done == applyShift(by, start, end, range, mode)
      IN ~done.status.isError =>
           /\ Len(done.range) = 2
           /\ 0 <= done.range[1]
           /\ done.range[1] <= done.range[2]
           /\ done.range[2] < Len(tableData)

\* A table without an index column accepted a row range that starts past the
\* last row and ends below the first one: the shift went over all three rows
\* and moved two values.
C38_Witness ==
  /\ AllIdle
  /\ findColumnIndexByName(columnNames, "index") = -1
  /\ Len(tableData) = 3
  /\ applyShift(<<"1">>, <<"7">>, <<"-", "1">>, "row", "shift").range = <<0, 2>>
  /\ status = Status("Shifted", 2, FALSE)
  /\ tableData[1][1] = <<>>
  /\ tableData[2][1] = <<"1">>
  /\ tableData[3][1] = <<"2">>

\* The messages of an accepted shift or offset.
ShiftMessages == { "Shifted", "Offset", "Shifted index", "Offset index" }

\* A step in which applyShift reported an accepted request.
ShiftApplied == status' # status /\ status'.msg \in ShiftMessages

\* C39: shift and offset change only cells of the target column inside the
\* resolved row range: every other cell, the length of every row, the number
\* of rows, the column names and the session baseline stay as they were.
C39_ShiftChangesOnlyRange ==
  /\ [](AllIdle =>
         \A by \in ShiftPanelBy, start \in RangeTexts, end \in RangeTexts,
            range \in ShiftRanges, mode \in ShiftModes :
           LET done == applyShift(by, start, end, range, mode)
           IN /\ Len(done.rows) = Len(tableData)
              /\ \A r \in 1 .. Len(tableData) :
                   /\ Len(done.rows[r]) = Len(tableData[r])
                   /\ \A c \in 1 .. Len(tableData[r]) :
                        done.rows[r][c] # tableData[r][c] =>
                          /\ c = done.selectedCol + 1
                          /\ done.range # <<>>
                          /\ r - 1 >= done.range[1]
                          /\ r - 1 <= done.range[2])
  /\ [][ShiftApplied =>
          /\ Len(tableData') = Len(tableData)
          /\ columnNames' = columnNames
          /\ UNCHANGED baselineVars]_vars

\* Rows 2..3 of the index column of the list 1, 2, 2 were shifted up by one:
\* row 1 and the word column are as loaded, and so is the baseline.
C39_Witness ==
  /\ AllIdle
  /\ status = Status("Shifted", 1, FALSE)
  /\ columnNames = <<"index", "word">>
  /\ tableData = << << <<"1">>, <<"a">> >>, << <<"2">>, <<>> >>, << <<>>, <<"b">> >> >>
  /\ originalCsvSerialized = storedCsv[0]

\* ------------------------------------------------------------ repeated saves
SavedMessages == { "Saved", "Saved (README update failed)" }

\* The last operation that ended is a save that succeeded, nothing is in
\* flight, and no input event happened since that save was called.
JustSaved ==
  /\ AllIdle
  /\ status.msg \in SavedMessages
  /\ status.base = currentIndex
  /\ ~hist.touched

\* C33: a save called right after a successful save, with no cell edit and no
\* change of a metadata input in between, is a no-op: it issues no write and
\* leaves the stored files, the baseline, the metadata record and the pass
\* number as they are.
C33_SecondSaveIsNoop ==
  [][ (JustSaved /\ SaveCalled)
        => ( /\ ~saveDidSave
             /\ \A t \in Slots : tasks'[t].pc \notin Writing
             /\ UNCHANGED <<serverVars, baselineVars, meta, itemMeta, metaLevel>> )
    ]_vars

\* The last operation that ended is a save that failed, nothing is in flight,
\* and no input event happened since that save was called.
JustFailed ==
  /\ AllIdle
  /\ SaveFailedStatus(status)
  /\ status.base = currentIndex
  /\ ~hist.touched

\* C34: a save that is retried after a failed save, with no edit in between,
\* and has something to write stamps the pass number the failed attempt would
\* have stamped; when that attempt assigned the number itself it is the
\* recorded previous pass plus one, however many attempts failed before.
C34_RetryStampsSamePass ==
  [][ (JustFailed /\ SaveCalled /\ saveDidSave)
        => ( /\ savePass = hist.pass
             /\ hist.auto => savePass = originalPass + 1 )
    ]_vars

\* C35: within one save the document write comes first and has to succeed
\* before the metadata write is issued: a save that changed the document
\* reaches its metadata write only from its own document write, in the step
\* that stores the document; a save whose document write failed is over and
\* has replaced no stored metadata; stored metadata is replaced only by the
\* metadata write of a save, with the record that save built.
C35_DocumentBeforeMetadata ==
  [][ /\ \A t \in Slots :
           (tasks'[t].pc = "meta_write" /\ tasks[t].pc # "meta_write")
             => IF tasks'[t].csvChanged
                THEN /\ tasks[t].pc = "csv_write"
                     /\ tasks'[t] = [tasks[t] EXCEPT !.pc = "meta_write"]
                     /\ storedCsv'[tasks[t].item] = tasks[t].csv
                ELSE tasks[t].op = "idle"
      /\ \A t \in Slots :
           (tasks[t].pc = "csv_write" /\ SaveFails(t))
             => (tasks'[t] = IdleTask /\ UNCHANGED serverVars)
      /\ storedMeta' # storedMeta
           => \E t \in Slots :
                /\ tasks[t].pc = "meta_write"
                /\ tasks'[t].pc = "readme"
                /\ storedMeta' = [storedMeta EXCEPT ![tasks[t].item] =
                                    JsonFile(JsonStringify(tasks[t].metadata))]
    ]_vars

\* The document write of a save that assigned a pass failed: neither the
\* document nor a record for it reached the server.
C35_Witness ==
  /\ AllIdle
  /\ SaveFailedStatus(status)
  /\ currentIndex >= 0
  /\ origin = [doc |-> currentIndex, baseline |-> currentIndex]
  /\ hist.auto
  /\ serializeCsv(tableData) # originalCsvSerialized
  /\ storedCsv[currentIndex] = originalCsvSerialized
  /\ storedMeta[currentIndex] = AbsentFile

\* C36: whatever loads, navigations, edits and saves came before, a save
\* writes a fragment from that fragment's own data: the rows of a document
\* write to fragment X were loaded from fragment X, and the baseline the save
\* compares with is fragment X's.
C36_WritesOwnFragment ==
  [][ \A t \in Slots :
        SaveStarts(t)
          => ( /\ origin.baseline = tasks'[t].item
               /\ tasks'[t].csvChanged => origin.doc = tasks'[t].item )
    ]_vars

\* ------------------------------------------------ pass numbers in one load
\* Sessions in which the reviewer waits for each operation to end before
\* starting the next (slot 1 only) and every read and write succeeds, long
\* enough for two saves of two edits of a document of two full rows.
ExtraEvents == 2

PassTexts == { "", "2" }

PassCsvText == <<"a", ",", "a", LF, "a", ",", "a">>

PassInit ==
  /\ ViewerOff
  /\ storedCsv = [i \in Items |-> PassCsvText]
  /\ storedMeta \in { [i \in Items |-> AbsentFile],
                      [i \in Items |-> JsonFile(JsonStringify(WrittenMeta(i)))] }
  /\ localStorageBy = ""
  /\ itemCount = 0
  /\ itemMeta = [i \in Items |-> NullMeta]
  /\ currentIndex = -1
  /\ tableData = <<>>
  /\ columnNames = <<>>
  /\ selectedRow = -1
  /\ selectedCol = -1
  /\ meta = NullMeta
  /\ originalCsvSerialized = <<>>
  /\ originalMetaSerialized = <<>>
  /\ originalPass = 0
  /\ sessionStartedAt = 0
  /\ metaLevel = ""
  /\ metaBy = ""
  /\ metaNotes = ""
  /\ status = Status("", -1, FALSE)
  /\ tasks = [t \in Slots |-> IF t = 1 THEN InitTask ELSE IdleTask]
  /\ now = 2
  /\ events = 0 - ExtraEvents
  /\ edited = FALSE
  /\ hist = NoSaves
  /\ origin = [doc |-> -1, baseline |-> -1]

PassNext ==
  \/ RefreshItems(1)
  \/ ReadCsvOk(1)
  \/ ReadMetaDone(1)
  \/ ClickSave(1)
  \/ WriteCsvOk(1)
  \/ WriteMetaOk(1)
  \/ ReadmeDone(1)
  \/ \E cell \in EditableCells, value \in CellValues :
       EditCell(cell[1], cell[2], value)
  \/ \E value \in PassTexts : EditPass(value)

PassSpec == PassInit /\ [][PassNext]_vars

\* A save of a changed document, made with a valid number in the pass input,
\* stamps that number and leaves the input alone.
EnteredPassStamped ==
  \A t \in Slots :
    (SaveStarts(t) /\ tasks'[t].csvChanged /\ parsePassInput(metaLevel) # 0)
      => ( /\ tasks'[t].metadata.proofread_pass = parsePassInput(metaLevel)
           /\ metaLevel' = metaLevel )

\* C37 as stated: a save of a changed document with a valid pass number in the
\* pass input stamps exactly that number, and between one load of a fragment
\* and the next the pass number is assigned automatically at most once.
C37_AutoIncrementOncePerLoad ==
  /\ [](hist.autoSinceLoad <= 1)
  /\ [][EnteredPassStamped]_vars

\* C37 amended: a save of a changed document with a valid pass number in the
\* pass input stamps exactly that number, and the pass number is assigned
\* automatically at most once between two moments at which the pass input is
\* set by a load or typed in by the reviewer.
C37_AutoIncrementOncePerEntry ==
  /\ [](hist.autoSinceTyped <= 1)
  /\ [][EnteredPassStamped]_vars

\* A second save of further edits reuses the number the first save put into
\* the pass input: pass 1 was assigned automatically and written, the rows
\* were edited again, and the save now in flight stamps 1 once more.
C37_Witness ==
  /\ tasks[1].pc = "csv_write"
  /\ tasks[1].metadata.proofread_pass = 1
  /\ originalPass = 1
  /\ storedMeta[currentIndex] # AbsentFile
  /\ hist.autoSinceLoad = 1
  /\ ~hist.auto

\* ------------------------------------------- the form of a romanization query
\* The form the rule gives a query: the digit form with a tone digit 1-5 in
\* it, else the mark form with a tone-marked vowel in it, else the toneless form.
FormByRule(query) ==
  IF \E i \in 1 .. Len(query) : query[i] \in {"1", "2", "3", "4", "5"}
  THEN "digits"
  ELSE IF \E i \in 1 .. Len(query) : \E m \in TONE_MARKS : query[i] = m[1]
  THEN "marks"
  ELSE "plain"

\* The typed query without its 'py:' prefix.
RomanizedPart(query) ==
  IF startsWith(query, PyPrefix) THEN Trim(SubSeq(query, 4, Len(query)))
  ELSE query

HasWildcard(query) ==
  \E i \in 1 .. Len(query) : query[i] \in {STAR, QM, FullWidthSTAR, FullWidthQM}

\* A pronunciation with every tone digit taken out and every tone-marked vowel
\* replaced by its base letter, then spelled as every form spells ("v" folded,
\* lower case, runs of blanks collapsed).
TonesRemoved(text) ==
  LET kept == SelectSeq(text, LAMBDA char : ~IsToneDigit(char))
  IN [i \in 1 .. Len(kept) |->
        IF \E m \in TONE_MARKS : m[1] = kept[i]
        THEN (CHOOSE m \in TONE_MARKS : m[1] = kept[i])[2]
        ELSE kept[i]]

TonelessCandidate(entry) == normalizePinyinMarks(TonesRemoved(entry.pinyin))

\* The list was filtered by a romanization query.
RomanizationFiltered ==
  /\ Filtered
  /\ searchMatcher # NullMatcher
  /\ searchMatcher.mode = "pinyin"

\* C32: the canonical form of romanization matching is selected by the query
\* alone (digit form with a tone digit 1-5 in the query, else mark form with a
\* tone-marked vowel in it, else toneless form), query and candidate are put
\* into that same form, and a toneless query without wildcards shows exactly
\* the entries in whose pronunciation, with all tone marks and tone digits
\* removed, the query occurs as a substring.
C32_FormSelectedByQuery ==
  RomanizationFiltered =>
    /\ searchMatcher.normalizer = FormByRule(searchQuery)
    /\ searchMatcher.term
         = applyNormalizer(FormByRule(searchQuery), RomanizedPart(searchQuery))
    /\ \A entry \in Listed :
         (~searchMatcher.glob) =>
           Shown(entry) = includes(applyNormalizer(FormByRule(searchQuery), entry.pinyin),
                                   searchMatcher.term)
    /\ (FormByRule(searchQuery) = "plain" /\ ~HasWildcard(searchQuery)) =>
         \A entry \in Listed :
           Shown(entry) = includes(TonelessCandidate(entry),
                                   normalizePinyinMarks(RomanizedPart(searchQuery)))

\* The list filtered by the toneless "ma" shows the entries pronounced "ma"
\* whether written with a mark, with a digit or without a tone, and none of
\* those pronounced "lu:".
C32_Witness ==
  /\ RomanizationFiltered
  /\ searchQuery = <<"m", "a">>
  /\ searchMatcher.normalizer = "plain"
  /\ \E entry \in Listed : entry.pinyin = <<"m", "a1">> /\ Shown(entry)
  /\ \E entry \in Listed : entry.pinyin = <<"m", "a", "3">> /\ Shown(entry)
  /\ \E entry \in Listed :
       entry.pinyin = <<"M", "a1", SP, SP, "h", "a3", "o">> /\ Shown(entry)
  /\ \E entry \in Listed : entry.pinyin = <<"l", "u:4">> /\ ~Shown(entry)

====
